---- MODULE Spec2Model ----
(***************************************************************************)
(* A model of the large-preimage uploader of op-challenger                 *)
(* (op-challenger/game/fault/preimages/large.go): the leaf/commitment      *)
(* loop, the UUID allocation, the initialization call and the sequential   *)
(* submission of the leaf transactions.  The contract gateway, the         *)
(* transaction manager and the entropy source are the environment: every   *)
(* answer they can give is a nondeterministic choice.                      *)
(***************************************************************************)
EXTENDS Integers, Sequences, FiniteSets, TLC

VARIABLES
    pc,           \* position of the caller inside UploadPreimage ("idle": no call runs)
    data,         \* the *types.PreimageOracleData argument of the running call
    stateMatrix,  \* the keccak state matrix of the running call
    leafs,        \* the []contracts.Leaf built by the loop
    i,            \* the loop variable of the leaf loop
    uuid,         \* the uuid of the running call (NoUUID before newUUID returned)
    candidates,   \* the []txmgr.TxCandidate AddLeaves returned
    k,            \* position of the range loop over candidates (1-based)
    ret,          \* the error the last call returned (Pending while a call runs)
    calls,        \* the calls received by the entropy source, the gateway and the tx manager
    logs,         \* the lines written to p.log
    ncalls,       \* number of UploadPreimage calls started
    cancelledAt,  \* ctx: NotCancelled, or the number of calls made when it was cancelled
    applied,      \* the last function of the types package applied: its name, argument, result
    \* AsyncGossiper
    running,         \* p.running
    loop,            \* the handling goroutine: "none", in its "select", or inside a handler:
                     \* "publish", "reply" (getPayload), and in the driver package
                     \* "setPayload", "clear", "clearFlag" (between two writes)
    ctxDone,         \* the ctx given to Start is done
    set,             \* the payloads in the channel p.set (capacity 1)
    currentPayload,  \* p.currentPayload
    hasPayload,      \* p.hasPayload (driver package)
    reqs,            \* the calls of PublishL2Payload: the payload and the result
    gossiped,        \* the payloads of the Gossip calls that returned
    publishErrors,   \* the calls of p.metrics.RecordPublishingError
    clearedAt,       \* the number of publish calls made when Clear last returned
    quiet,           \* Clear has returned and Gossip was not called since
    lastGet,         \* the last Get whose request the loop took: whether it has returned and
                     \* what, and when it was taken: whether quiet, the payload of the last
                     \* Gossip that had returned, the publishing errors recorded
    starters,        \* the concurrent callers of Start, each with its position inside Start
    extraLoops,      \* the handling goroutines running besides the one of loop
    pending,         \* the call of Gossip, Get or Clear that has not returned ("none": no call)
    \* LivenessModule, its Safe and its LivenessGuard
    module,          \* the immutables of the LivenessModule (deployed: the constructor ran)
    safeOwners,      \* SAFE.getOwners()
    safeThreshold,   \* SAFE.getThreshold()
    safeGuard,       \* the guard address in the storage of the Safe
    lastLive,        \* LIVENESS_GUARD.lastLive
    now,             \* block.timestamp
    lastRemove,      \* the call of removeOwner in the latest transaction, if it was one
    \* NodeProxyBackend and its conductor
    leader,          \* what con.Leader answers
    proxy            \* the requests served by the NodeProxyBackend, each with its position

safeVars == <<module, safeOwners, safeThreshold, safeGuard, lastLive, now, lastRemove>>

gossipVars == <<running, loop, ctxDone, set, currentPayload, hasPayload, reqs, gossiped,
                publishErrors, clearedAt, quiet, lastGet>>

proxyVars == <<leader, proxy>>

\* the callers of the AsyncGossiper that the handling loop does not see
callerVars == <<starters, extraLoops, pending>>

\* the state of the components other than the uploader
otherVars == <<gossipVars, callerVars, safeVars, proxyVars>>

vars == <<pc, data, stateMatrix, leafs, i, uuid, candidates, k, ret, calls, logs, ncalls,
          cancelledAt, applied, otherVars>>

----------------------------------------------------------------------------
(* Bounds of the model. *)

\* data of up to MaxBlocks full blocks, plus a partial block
MaxBlocks == 2
\* the gateway splits the leaves into at most MaxCandidates transactions
MaxCandidates == 3
\* number of UploadPreimage calls made on one uploader
MaxCalls == 2

----------------------------------------------------------------------------
(* Program constants. *)

\* types.LibKeccakBlockSizeBytes
LibKeccakBlockSizeBytes == 136

\* big.Int values are little-endian sequences of NumLimbs limbs of LimbBits
\* bits each: NumLimbs * LimbBits = 130, the exponent of newUUID.
LimbBase == 67108864
NumLimbs == 5
\* the bits of a limb: LimbBase = 2^LimbBits
LimbBits == 26
\* the exponent newUUID raises 2 to
UUIDBits == 130

----------------------------------------------------------------------------
(* Values. *)

NoUUID == <<>>
\* the context of the call is not cancelled
NotCancelled == -1
\* no function of the types package was applied
NothingApplied == [fn |-> "none", arg |-> <<>>, res |-> <<>>]
Nil == <<>>
Pending == <<[msg |-> "pending", uuid |-> <<>>]>>

\* uint32(n) for 0 <= n < 2^31: the low 32 bits, computed in 16-bit halves
ToUint32(n) == ((n \div 65536) % 65536) * 65536 + (n % 65536)

BigZero == [l \in 1..NumLimbs |-> 0]
\* 2^130 - 1, the value newUUID computes as max
BigAllOnes == [l \in 1..NumLimbs |-> LimbBase - 1]
\* 2^130 - 2
BigAllOnesLessOne == [l \in 1..NumLimbs |-> IF l = 1 THEN LimbBase - 2 ELSE LimbBase - 1]

\* a < b on big.Int values (compared from the most significant limb down)
RECURSIVE BigLessFrom(_, _, _)
BigLessFrom(a, b, l) ==
    IF l = 0 THEN FALSE
    ELSE IF a[l] # b[l] THEN a[l] < b[l]
    ELSE BigLessFrom(a, b, l - 1)

BigLess(a, b) == BigLessFrom(a, b, NumLimbs)

\* new(big.Int).Exp(2, e, nil) for e <= NumLimbs * LimbBits; the value
\* 2^(NumLimbs * LimbBits) is held with LimbBase in the most significant limb
BigPow2(e) ==
    [l \in 1..NumLimbs |->
        IF l = (e \div LimbBits) + 1 THEN 2^(e % LimbBits)
        ELSE IF l = NumLimbs /\ e = NumLimbs * LimbBits THEN LimbBase
        ELSE 0]

\* a - 1 for a > 0: the borrow runs up from limb l
RECURSIVE BigSubOneFrom(_, _)
BigSubOneFrom(a, l) ==
    IF l > NumLimbs THEN a
    ELSE IF a[l] > 0 THEN [a EXCEPT ![l] = a[l] - 1]
    ELSE BigSubOneFrom([a EXCEPT ![l] = LimbBase - 1], l + 1)

BigSubOne(a) == BigSubOneFrom(a, 1)

\* a + 1: the carry runs up from limb l and stays in the most significant limb
RECURSIVE BigAddOneFrom(_, _)
BigAddOneFrom(a, l) ==
    IF l = NumLimbs \/ a[l] < LimbBase - 1 THEN [a EXCEPT ![l] = a[l] + 1]
    ELSE BigAddOneFrom([a EXCEPT ![l] = 0], l + 1)

BigAddOne(a) == BigAddOneFrom(a, 1)

\* big.Int division by 10: <<quotient, remainder>>, long division over the limbs
RECURSIVE BigDiv10From(_, _, _, _)
BigDiv10From(a, l, rem, q) ==
    IF l = 0 THEN <<q, rem>>
    ELSE LET cur == rem * LimbBase + a[l]
         IN BigDiv10From(a, l - 1, cur % 10, [q EXCEPT ![l] = cur \div 10])

BigDiv10(a) == BigDiv10From(a, NumLimbs, 0, BigZero)

\* (*big.Int).String(): the decimal digits, most significant first
RECURSIVE BigDigits(_)
BigDigits(a) ==
    LET qr == BigDiv10(a)
    IN IF qr[1] = BigZero THEN <<qr[2]>>
       ELSE Append(BigDigits(qr[1]), qr[2])

BigString(a) == BigDigits(a)

----------------------------------------------------------------------------
(* Errors: an error is the sequence of its layers, outermost first; a      *)
(* layer is the message fmt.Errorf prints and the uuid it formats with %s  *)
(* (NoUUID when it formats none).                                           *)

Layer(msg, id) == [msg |-> msg, uuid |-> id]

\* fmt.Errorf("<msg>: %w", err)
Wrap(msg, err) == <<Layer(msg, NoUUID)>> \o err

\* fmt.Errorf("<msg> with uuid: %s: %w", uuid, err)
WrapUUID(msg, id, err) == <<Layer(msg, BigString(id))>> \o err

errNotSupported == <<Layer("not supported", NoUUID)>>

\* the errors of the environment
errRand == <<Layer("entropy source failed", NoUUID)>>
errBuild == <<Layer("contract call could not be built", NoUUID)>>
errSend == <<Layer("transaction could not be sent", NoUUID)>>
\* the error of a context that is done
errCanceled == <<Layer("context canceled", NoUUID)>>

----------------------------------------------------------------------------
(* types.PreimageOracleData: the block decomposition. *)

\* LeafCount that counts the full blocks only
LeafCountFullBlocks(d) == Len(d.OracleData) \div LibKeccakBlockSizeBytes

\* ceil(len(OracleData) / LibKeccakBlockSizeBytes)
LeafCount(d) ==
    (Len(d.OracleData) + LibKeccakBlockSizeBytes - 1) \div LibKeccakBlockSizeBytes

\* the number of bytes of the data that lie in block idx
BlockBytes(d, idx) ==
    LET rest == Len(d.OracleData) - idx * LibKeccakBlockSizeBytes
    IN IF rest <= 0 THEN 0
       ELSE IF rest < LibKeccakBlockSizeBytes THEN rest
       ELSE LibKeccakBlockSizeBytes

\* GetKeccakLeaf with the bytes of a partial block at the start of the block
GetKeccakLeafLeftAligned(d, idx) ==
    [j \in 1..LibKeccakBlockSizeBytes |->
        IF j <= BlockBytes(d, idx)
        THEN d.OracleData[idx * LibKeccakBlockSizeBytes + j]
        ELSE 0]

\* GetKeccakLeaf that returns the last block for an index past the data
GetKeccakLeafClamped(d, idx) ==
    LET at == IF idx >= LeafCount(d) /\ LeafCount(d) > 0 THEN LeafCount(d) - 1 ELSE idx
        pad == LibKeccakBlockSizeBytes - BlockBytes(d, at)
    IN [j \in 1..LibKeccakBlockSizeBytes |->
           IF j <= pad THEN 0
           ELSE d.OracleData[at * LibKeccakBlockSizeBytes + j - pad]]

\* the block of LibKeccakBlockSizeBytes bytes at index idx: a full block is the
\* bytes of the data; a partial block is zero bytes, then the bytes of the data
\* that lie in it; a block past the data is zero
GetKeccakLeaf(d, idx) ==
    LET pad == LibKeccakBlockSizeBytes - BlockBytes(d, idx)
    IN [j \in 1..LibKeccakBlockSizeBytes |->
           IF j <= pad THEN 0
           ELSE d.OracleData[idx * LibKeccakBlockSizeBytes + j - pad]]

\* NewPreimageOracleData with IsLocal set for an empty key and for a first byte 0
NewPreimageOracleDataZeroIsLocal(key, bytes, offset) ==
    [IsLocal |-> (Len(key) = 0 \/ key[1] = 0),
     OracleKey |-> key,
     OracleData |-> bytes,
     OracleOffset |-> offset]

\* the constructor: IsLocal is set for a key whose first byte is 1
NewPreimageOracleData(key, bytes, offset) ==
    [IsLocal |-> (Len(key) > 0 /\ key[1] = 1),
     OracleKey |-> key,
     OracleData |-> bytes,
     OracleOffset |-> offset]

(* matrix.StateMatrix: the sponge is consumed as an opaque sequential      *)
(* primitive.  Its state is the sequence of absorptions made so far, and   *)
(* the commitment is taken to be an injective function of that sequence.   *)

NewStateMatrix == <<>>

AbsorbLeaf(sm, leaf, isLast) == Append(sm, [block |-> leaf, last |-> isLast])

StateCommitment(sm) == [absorbed |-> sm]

----------------------------------------------------------------------------
(* The inputs of a call. *)

\* the lengths of the data: whole blocks, and one byte more
DataLens ==
    {b * LibKeccakBlockSizeBytes + r : b \in 0..MaxBlocks, r \in {0, 1}}

\* a byte sequence of the given length with no zero byte in it
MakeData(len, seed) == [j \in 1..len |-> 1 + ((j * seed) % 255)]

\* the byte patterns the data is filled with
Seeds == {1, 2}

Offsets == {0, 7}

Inputs ==
    {[OracleData |-> MakeData(len, seed), OracleOffset |-> off] :
        len \in DataLens, seed \in Seeds, off \in Offsets}

\* the values the entropy source is asked about: rand.Int returns one below max
UUIDSamples == {BigZero, BigAllOnesLessOne, BigAllOnes, BigPow2(UUIDBits)}

\* rand.Int(rand.Reader, max): a value n with 0 <= n < max
RandInt(max) == {n \in UUIDSamples : BigLess(n, max)}

\* NewUUIDMax with max.Add(max, 1) in place of max.Sub(max, 1)
NewUUIDMaxAddOne == BigAddOne(BigPow2(UUIDBits))

\* newUUID: max.Exp(2, 130, nil).Sub(max, 1)
NewUUIDMax == BigSubOne(BigPow2(UUIDBits))

\* newUUID: rand.Int(rand.Reader, max)
NewUUIDValues == RandInt(NewUUIDMax)

----------------------------------------------------------------------------
(* The pieces of UploadPreimage. *)

\* IsLastLeaf that is off by one
IsLastLeafOffByOne(d, idx) == idx = LeafCount(d)

\* the isLast argument of AbsorbLeaf
IsLastLeaf(d, idx) == idx = LeafCount(d) - 1

\* the state matrix after iteration idx of the loop
LoopAbsorb(d, sm, idx) ==
    AbsorbLeaf(sm, GetKeccakLeaf(d, ToUint32(idx)), IsLastLeaf(d, idx))

\* LoopLeaf whose commitment is taken from a sponge that absorbed this block only
LoopLeafUnchained(d, sm, idx) ==
    [Input |-> GetKeccakLeaf(d, ToUint32(idx)),
     Index |-> idx,
     StateCommitment |-> StateCommitment(<<sm[Len(sm)]>>)]

\* the contracts.Leaf appended by iteration idx, from the state after the absorption
LoopLeaf(d, sm, idx) ==
    [Input |-> GetKeccakLeaf(d, ToUint32(idx)),
     Index |-> idx,
     StateCommitment |-> StateCommitment(sm)]

Entry(call, args, result) == [call |-> call, args |-> args, result |-> result]

\* the arguments UploadPreimage passes to the gateway
InitArgs(d, id) ==
    [uuid |-> id, partOffset |-> d.OracleOffset, claimedSize |-> ToUint32(Len(d.OracleData))]

\* AddLeavesArgs that asks for finalization
AddLeavesArgsFinalize(id, ls) == [uuid |-> id, leaves |-> ls, finalize |-> TRUE]

\* AddLeavesArgs with a uuid that is not the one of the init call
AddLeavesArgsOtherUUID(id, ls) == [uuid |-> BigZero, leaves |-> ls, finalize |-> FALSE]

AddLeavesArgs(id, ls) == [uuid |-> id, leaves |-> ls, finalize |-> FALSE]

\* the transaction candidates the gateway builds
InitCandidate(id) == [kind |-> "init", uuid |-> id, seq |-> 0]

LeafCandidates(id, n) == [j \in 1..n |-> [kind |-> "leaves", uuid |-> id, seq |-> j]]

\* SendFails that takes a reverted receipt for a failure
SendFailsOnRevert(result) == result # "success"

\* sendTxAndWait returns an error exactly when Send returned one
SendFails(result) == result = "error"

\* the line sendTxAndWait logs for a receipt
LogLine(result) ==
    IF result = "failed"
    THEN "LargePreimageUploader tx successfully published but reverted"
    ELSE "LargePreimageUploader tx successfully published"

\* the error UploadPreimage returns when initLargePreimage fails
InitError(id, cause, inner) ==
    WrapUUID("failed to initialize large preimage", id, Wrap(inner, cause))

\* the error UploadPreimage returns when addLargePreimageLeafs fails
LeavesError(id, cause, inner) ==
    WrapUUID("failed to add leaves to large preimage", id, Wrap(inner, cause))

UUIDError(cause) == Wrap("failed to generate UUID", cause)

----------------------------------------------------------------------------
(* AsyncGossiper: values and construction. *)

\* the number of payloads gossiped
MaxGossips == 3

\* a nil *eth.ExecutionPayload
NoPayload == 0

\* Clear has not returned yet
NeverCleared == -1

\* Get has not returned yet
NoGet == [payload |-> NoPayload, quiet |-> FALSE, returned |-> FALSE,
          latest |-> NoPayload, errors |-> 0]

\* NewAsyncGossiper: the fields of the struct, and the observations at their start
\* the number of goroutines that call Start at the same time
MaxStarters == 3

Starters == 1..MaxStarters

NewAsyncGossiper ==
    /\ running = FALSE
    /\ loop = "none"
    /\ ctxDone = FALSE
    /\ set = <<>>
    /\ currentPayload = NoPayload
    /\ hasPayload = FALSE
    /\ reqs = <<>>
    /\ gossiped = <<>>
    /\ publishErrors = 0
    /\ clearedAt = NeverCleared
    /\ quiet = FALSE
    /\ lastGet = NoGet
    /\ starters = [c \in Starters |-> "idle"]
    /\ extraLoops = 0
    /\ pending = "none"

----------------------------------------------------------------------------
(* LivenessModule (contracts-bedrock/src/Safe/LivenessModule.sol): values. *)

\* block.timestamp runs up to MaxTime
MaxTime == 2

\* address(0)
ZeroAddress == 0
\* address(0x1), the head of the linked list of owners
SENTINEL_OWNERS == 1
\* the addresses that can own the Safe
Addrs == {2, 3, 4}
\* an address that is not one of them
OutsideAddr == 5
AllAddrs == Addrs \cup {OutsideAddr}

\* the LivenessGuard of the module, and another guard
LIVENESS_GUARD == "LivenessGuard"
OtherGuard == "otherGuard"

\* no removeOwner was called
NoRemove ==
    [called |-> FALSE, owner |-> ZeroAddress, reverted |-> FALSE,
     ownersBefore |-> <<>>, thresholdBefore |-> 0]

(* NodeProxyBackend (op-conductor/rpc/node_proxy.go): values. *)

\* the number of requests the rpc server handles at the same time
MaxRequests == 2

Requests == 1..MaxRequests

\* the blockNum arguments of OutputAtBlock
BlockNums == {0, 7}

ErrNotLeader == "ErrNotLeader"

\* a request slot in which no call has been made
NoRequest ==
    [pc |-> "idle", method |-> "", blockNum |-> 0, leaderCalls |-> 0, isLeader |-> FALSE,
     clientCalls |-> <<>>, ret |-> [value |-> "", err |-> ""]]

\* NewNodeProxyBackend: no request yet; the node is not the leader
NewNodeProxyBackend ==
    /\ leader = FALSE
    /\ proxy = [r \in Requests |-> NoRequest]

\* before the deployment of the module
NoLivenessModule ==
    /\ module = [deployed |-> FALSE, LIVENESS_INTERVAL |-> 0, MIN_OWNERS |-> 0,
                 FALLBACK_OWNER |-> ZeroAddress]
    /\ safeOwners = <<>>
    /\ safeThreshold = 0
    /\ safeGuard = ""
    /\ lastLive = [a \in AllAddrs |-> 0]
    /\ now = 0
    /\ lastRemove = NoRemove

----------------------------------------------------------------------------
(* The state machine. *)

\* the ctx of sendTxAndWait was cancelled before the Send entered last was called
CancelledBeforeSend == cancelledAt # NotCancelled /\ cancelledAt < Len(calls)

\* it was cancelled while that Send was in flight
CancelledInFlight == cancelledAt # NotCancelled /\ cancelledAt = Len(calls)

\* p.txMgr.Send(ctx, candidate): the results it can return and their errors.  A
\* Send called with a context that is done returns the error of the context.
SendResults ==
    IF CancelledBeforeSend
    THEN {<<"error", errCanceled>>}
    ELSE {<<"success", Nil>>, <<"failed", Nil>>, <<"error", errSend>>}
         \cup (IF CancelledInFlight THEN {<<"error", errCanceled>>} ELSE {})

InFlight == {j \in DOMAIN calls : calls[j].call = "Send" /\ calls[j].result = "inflight"}

Init ==
    /\ pc = "idle"
    /\ data = [OracleData |-> <<>>, OracleOffset |-> 0]
    /\ stateMatrix = NewStateMatrix
    /\ leafs = <<>>
    /\ i = 0
    /\ uuid = NoUUID
    /\ candidates = <<>>
    /\ k = 1
    /\ ret = Nil
    /\ calls = <<>>
    /\ logs = <<>>
    /\ ncalls = 0
    /\ cancelledAt = NotCancelled
    /\ applied = NothingApplied
    /\ NewAsyncGossiper
    /\ NoLivenessModule
    /\ NewNodeProxyBackend

\* UploadPreimage is called: the locals of lines 39-41
Call ==
    /\ pc = "idle"
    /\ ncalls < MaxCalls
    /\ \E d \in Inputs : data' = d
    /\ stateMatrix' = NewStateMatrix
    /\ leafs' = <<>>
    /\ i' = 0
    /\ uuid' = NoUUID
    /\ candidates' = <<>>
    /\ k' = 1
    /\ ret' = Pending
    /\ calls' = <<>>
    /\ logs' = <<>>
    /\ ncalls' = ncalls + 1
    /\ pc' = "loop"
    /\ cancelledAt' = NotCancelled
    /\ UNCHANGED <<applied, otherVars>>

\* one iteration of the leaf loop
LoopStep ==
    /\ pc = "loop"
    /\ i < LeafCount(data)
    /\ stateMatrix' = LoopAbsorb(data, stateMatrix, i)
    /\ leafs' = Append(leafs, LoopLeaf(data, stateMatrix', i))
    /\ i' = i + 1
    /\ UNCHANGED <<pc, data, uuid, candidates, k, ret, calls, logs, ncalls, cancelledAt, applied, otherVars>>

\* LoopExit that returns at once when no leaf was built
LoopExitReturnsOnEmpty ==
    /\ pc = "loop"
    /\ ~(i < LeafCount(data))
    /\ IF leafs = <<>>
       THEN pc' = "idle" /\ ret' = errNotSupported
       ELSE pc' = "uuid" /\ UNCHANGED ret
    /\ UNCHANGED <<data, stateMatrix, leafs, i, uuid, candidates, k, calls, logs, ncalls, cancelledAt, applied, otherVars>>

\* the loop ends
LoopExit ==
    /\ pc = "loop"
    /\ ~(i < LeafCount(data))
    /\ pc' = "uuid"
    /\ UNCHANGED <<data, stateMatrix, leafs, i, uuid, candidates, k, ret, calls, logs, ncalls, cancelledAt, applied, otherVars>>

\* NewUUID without the check of the error newUUID returned
NewUUIDUnchecked ==
    /\ pc = "uuid"
    /\ \/ /\ \E id \in NewUUIDValues : uuid' = id
          /\ calls' = Append(calls, Entry("rand.Int", NewUUIDMax, "ok"))
       \/ /\ calls' = Append(calls, Entry("rand.Int", NewUUIDMax, "error"))
          /\ uuid' = BigZero
    /\ pc' = "init"
    /\ UNCHANGED <<data, stateMatrix, leafs, i, candidates, k, ret, logs, ncalls, cancelledAt, applied, otherVars>>

\* p.newUUID() and the check of its error
NewUUID ==
    /\ pc = "uuid"
    /\ \/ /\ \E id \in NewUUIDValues : uuid' = id
          /\ calls' = Append(calls, Entry("rand.Int", NewUUIDMax, "ok"))
          /\ pc' = "init"
          /\ UNCHANGED ret
       \/ /\ calls' = Append(calls, Entry("rand.Int", NewUUIDMax, "error"))
          /\ ret' = UUIDError(errRand)
          /\ pc' = "idle"
          /\ UNCHANGED uuid
    /\ UNCHANGED <<data, stateMatrix, leafs, i, candidates, k, logs, ncalls, cancelledAt, applied, otherVars>>

\* InitBuild without the check of the error InitLargePreimage returned
InitBuildUnchecked ==
    /\ pc = "init"
    /\ \E result \in {"ok", "error"} :
          calls' = Append(calls, Entry("InitLargePreimage", InitArgs(data, uuid), result))
    /\ pc' = "initSend"
    /\ UNCHANGED <<data, stateMatrix, leafs, i, uuid, candidates, k, ret, logs, ncalls, cancelledAt, applied, otherVars>>

\* initLargePreimage: p.contract.InitLargePreimage and the check of its error
InitBuild ==
    /\ pc = "init"
    /\ \/ /\ calls' = Append(calls, Entry("InitLargePreimage", InitArgs(data, uuid), "ok"))
          /\ pc' = "initSend"
          /\ UNCHANGED ret
       \/ /\ calls' = Append(calls, Entry("InitLargePreimage", InitArgs(data, uuid), "error"))
          /\ ret' = InitError(uuid, errBuild, "failed to create pre-image oracle tx")
          /\ pc' = "idle"
    /\ UNCHANGED <<data, stateMatrix, leafs, i, uuid, candidates, k, logs, ncalls, cancelledAt, applied, otherVars>>

\* InitSend that does not wait for Send to return
InitSendNoWait ==
    /\ pc = "initSend"
    /\ calls' = Append(calls, Entry("Send", InitCandidate(uuid), "inflight"))
    /\ pc' = "add"
    /\ UNCHANGED <<data, stateMatrix, leafs, i, uuid, candidates, k, ret, logs, ncalls, cancelledAt, applied, otherVars>>

\* sendTxAndWait of the init candidate: p.txMgr.Send is called
InitSend ==
    /\ pc = "initSend"
    /\ calls' = Append(calls, Entry("Send", InitCandidate(uuid), "inflight"))
    /\ pc' = "initWait"
    /\ UNCHANGED <<data, stateMatrix, leafs, i, uuid, candidates, k, ret, logs, ncalls, cancelledAt, applied, otherVars>>

\* p.txMgr.Send of the init candidate returns
InitSendReturn ==
    /\ pc = "initWait"
    /\ \E r \in SendResults :
        LET result == r[1] IN
        /\ calls' = [calls EXCEPT ![Len(calls)].result = result]
        /\ IF SendFails(result)
           THEN /\ ret' = InitError(uuid, r[2], "failed to populate pre-image oracle")
                /\ pc' = "idle"
                /\ UNCHANGED logs
           ELSE /\ logs' = Append(logs, LogLine(result))
                /\ pc' = "add"
                /\ UNCHANGED ret
    /\ UNCHANGED <<data, stateMatrix, leafs, i, uuid, candidates, k, ncalls, cancelledAt, applied, otherVars>>

\* addLargePreimageLeafs: p.contract.AddLeaves and the check of its error
AddLeaves ==
    /\ pc = "add"
    /\ \/ /\ \E n \in 0..MaxCandidates : candidates' = LeafCandidates(uuid, n)
          /\ calls' = Append(calls, Entry("AddLeaves", AddLeavesArgs(uuid, leafs), "ok"))
          /\ k' = 1
          /\ pc' = "leafLoop"
          /\ UNCHANGED ret
       \/ /\ calls' = Append(calls, Entry("AddLeaves", AddLeavesArgs(uuid, leafs), "error"))
          /\ ret' = LeavesError(uuid, errBuild, "failed to create pre-image oracle tx")
          /\ pc' = "idle"
          /\ UNCHANGED <<candidates, k>>
    /\ UNCHANGED <<data, stateMatrix, leafs, i, uuid, logs, ncalls, cancelledAt, applied, otherVars>>

\* the range loop over the candidates: p.txMgr.Send is called for the next one
LeafSend ==
    /\ pc = "leafLoop"
    /\ k <= Len(candidates)
    /\ calls' = Append(calls, Entry("Send", candidates[k], "inflight"))
    /\ pc' = "leafWait"
    /\ UNCHANGED <<data, stateMatrix, leafs, i, uuid, candidates, k, ret, logs, ncalls, cancelledAt, applied, otherVars>>

\* LeafSendReturn that goes on to the next candidate when Send failed
LeafSendReturnContinue ==
    /\ pc = "leafWait"
    /\ \E result \in {"success", "failed", "error"} :
        /\ calls' = [calls EXCEPT ![Len(calls)].result = result]
        /\ logs' = IF SendFails(result) THEN logs ELSE Append(logs, LogLine(result))
        /\ k' = k + 1
        /\ pc' = "leafLoop"
        /\ UNCHANGED ret
    /\ UNCHANGED <<data, stateMatrix, leafs, i, uuid, candidates, ncalls, cancelledAt, applied, otherVars>>

\* LeafSendReturn that sends the same candidate again when Send failed
LeafSendReturnRetry ==
    /\ pc = "leafWait"
    /\ \E result \in {"success", "failed", "error"} :
        /\ calls' = [calls EXCEPT ![Len(calls)].result = result]
        /\ IF SendFails(result)
           THEN /\ pc' = "leafLoop"
                /\ UNCHANGED <<logs, k, ret>>
           ELSE /\ logs' = Append(logs, LogLine(result))
                /\ k' = k + 1
                /\ pc' = "leafLoop"
                /\ UNCHANGED ret
    /\ UNCHANGED <<data, stateMatrix, leafs, i, uuid, candidates, ncalls, cancelledAt, applied, otherVars>>

\* p.txMgr.Send of a leaf candidate returns
LeafSendReturn ==
    /\ pc = "leafWait"
    /\ \E r \in SendResults :
        LET result == r[1] IN
        /\ calls' = [calls EXCEPT ![Len(calls)].result = result]
        /\ IF SendFails(result)
           THEN /\ ret' = LeavesError(uuid, r[2], "failed to populate pre-image oracle")
                /\ pc' = "idle"
                /\ UNCHANGED <<logs, k>>
           ELSE /\ logs' = Append(logs, LogLine(result))
                /\ k' = k + 1
                /\ pc' = "leafLoop"
                /\ UNCHANGED ret
    /\ UNCHANGED <<data, stateMatrix, leafs, i, uuid, candidates, ncalls, cancelledAt, applied, otherVars>>

\* Finish with the last line changed to "return nil"
FinishReturnsNil ==
    /\ pc = "leafLoop"
    /\ ~(k <= Len(candidates))
    /\ ret' = Nil
    /\ pc' = "idle"
    /\ UNCHANGED <<data, stateMatrix, leafs, i, uuid, candidates, k, calls, logs, ncalls, cancelledAt, applied, otherVars>>

\* the range loop is over: return errNotSupported
Finish ==
    /\ pc = "leafLoop"
    /\ ~(k <= Len(candidates))
    /\ ret' = errNotSupported
    /\ pc' = "idle"
    /\ UNCHANGED <<data, stateMatrix, leafs, i, uuid, candidates, k, calls, logs, ncalls, cancelledAt, applied, otherVars>>

Next ==
    \/ Call
    \/ LoopStep
    \/ LoopExit
    \/ NewUUID
    \/ InitBuild
    \/ InitSend
    \/ InitSendReturn
    \/ AddLeaves
    \/ LeafSend
    \/ LeafSendReturn
    \/ Finish

Spec == Init /\ [][Next]_vars

\* the caller cancels the ctx it passed to UploadPreimage, while the call runs
Cancel ==
    /\ pc # "idle"
    /\ cancelledAt = NotCancelled
    /\ cancelledAt' = Len(calls)
    /\ UNCHANGED <<pc, data, stateMatrix, leafs, i, uuid, candidates, k, ret, calls, logs, ncalls,
                   applied, otherVars>>

NextCancel ==
    \/ Next
    \/ Cancel

SpecCancel == Init /\ [][NextCancel]_vars

----------------------------------------------------------------------------
(* The pure parts, applied to inputs of their own: the leaf loop of        *)
(* UploadPreimage run to its end, and the functions of the types package.  *)

\* a full block of one byte pattern, with no zero byte in it
BlockOf(seed) == [j \in 1..LibKeccakBlockSizeBytes |-> 1 + ((j * seed) % 255)]

\* the data made of the full blocks of the patterns ps, then tail more bytes:
\* zero bytes, then one byte 9
BlockData(ps, tail) ==
    [j \in 1..(Len(ps) * LibKeccakBlockSizeBytes + tail) |->
        IF j <= Len(ps) * LibKeccakBlockSizeBytes
        THEN BlockOf(ps[((j - 1) \div LibKeccakBlockSizeBytes) + 1])[((j - 1) % LibKeccakBlockSizeBytes) + 1]
        ELSE IF j = Len(ps) * LibKeccakBlockSizeBytes + tail THEN 9 ELSE 0]

\* the lengths of the partial last block
Tails == {0, 1, 2}

PatternSeqs == UNION {[1..n -> Seeds] : n \in 0..MaxBlocks}

BlockInputs ==
    {[OracleData |-> BlockData(ps, tail), OracleOffset |-> 0] :
        ps \in PatternSeqs, tail \in Tails}

\* the leafs slice at the end of the loop of UploadPreimage (lines 39-53)
RECURSIVE BuildLeafsFrom(_, _, _, _)
BuildLeafsFrom(d, sm, ls, idx) ==
    IF idx < LeafCount(d)
    THEN LET next == LoopAbsorb(d, sm, idx)
         IN BuildLeafsFrom(d, next, Append(ls, LoopLeaf(d, next, idx)), idx + 1)
    ELSE ls

BuildLeafs(d) == BuildLeafsFrom(d, NewStateMatrix, <<>>, 0)

UploadVars == <<pc, data, stateMatrix, leafs, i, uuid, candidates, k, ret, calls, logs, ncalls,
                cancelledAt>>

\* the leaf loop is run on two preimages
ApplyBuildLeafs ==
    /\ applied = NothingApplied
    /\ \E d1 \in BlockInputs, d2 \in BlockInputs :
        applied' = [fn |-> "BuildLeafs", arg |-> <<d1, d2>>,
                    res |-> <<BuildLeafs(d1), BuildLeafs(d2)>>]
    /\ UNCHANGED <<UploadVars, otherVars>>

\* the greatest generalized index a Position is built from
MaxGIndex == 8

\* the depth of the generalized index g: the position of its most significant bit
RECURSIVE GIndexDepth(_)
GIndexDepth(g) == IF g <= 1 THEN 0 ELSE 1 + GIndexDepth(g \div 2)

\* NewPositionFromGIndex that keeps the most significant bit in the index
NewPositionFromGIndexKeepMSB(g) ==
    [depth |-> GIndexDepth(g), indexAtDepth |-> g]

\* the Position of the generalized index g: its depth in the tree, and its index
\* in that depth (g without its most significant bit)
NewPositionFromGIndex(g) ==
    [depth |-> GIndexDepth(g), indexAtDepth |-> g % (2^GIndexDepth(g))]

\* the position is the root of the tree
IsRootPosition(p) == p.depth = 0 /\ p.indexAtDepth = 0

\* IsRootPosition is applied to the Position of a generalized index
ApplyIsRootPosition ==
    /\ applied = NothingApplied
    /\ \E g \in 0..MaxGIndex :
        applied' = [fn |-> "IsRootPosition", arg |-> g,
                    res |-> IsRootPosition(NewPositionFromGIndex(g))]
    /\ UNCHANGED <<UploadVars, otherVars>>

\* the lengths LeafCount is applied to
CountLens == 0..(MaxBlocks * LibKeccakBlockSizeBytes + 1)

\* LeafCount is applied
ApplyLeafCount ==
    /\ applied = NothingApplied
    /\ \E len \in CountLens :
        LET d == NewPreimageOracleData(<<>>, MakeData(len, 1), 0)
        IN applied' = [fn |-> "LeafCount", arg |-> d, res |-> LeafCount(d)]
    /\ UNCHANGED <<UploadVars, otherVars>>

\* the indexes GetKeccakLeaf is applied to
LeafIndexes == 0..(MaxBlocks + 1)

\* GetKeccakLeaf is applied
ApplyGetKeccakLeaf ==
    /\ applied = NothingApplied
    /\ \E d \in BlockInputs, idx \in LeafIndexes :
        applied' = [fn |-> "GetKeccakLeaf", arg |-> <<d, idx>>,
                    res |-> GetKeccakLeaf(d, idx)]
    /\ UNCHANGED <<UploadVars, otherVars>>

\* the keys, data and offsets the constructor is applied to
Keys == {<<>>, <<0, 2, 3>>, <<1, 2, 3>>, <<2, 2, 3>>}
KeyData == {<<>>, <<4, 5, 6>>}

\* NewPreimageOracleData is applied
ApplyNewPreimageOracleData ==
    /\ applied = NothingApplied
    /\ \E key \in Keys, bytes \in KeyData, offset \in Offsets :
        applied' = [fn |-> "NewPreimageOracleData", arg |-> <<key, bytes, offset>>,
                    res |-> NewPreimageOracleData(key, bytes, offset)]
    /\ UNCHANGED <<UploadVars, otherVars>>

\* the largest number of owners get75PercentThreshold is applied to
MaxOwners == 8

\* get75PercentThreshold (LivenessModule.sol)
get75PercentThreshold(numOwners) == (numOwners * 75 + 99) \div 100

\* get75PercentThreshold is applied
ApplyGet75PercentThreshold ==
    /\ applied = NothingApplied
    /\ \E n \in 0..MaxOwners :
        applied' = [fn |-> "get75PercentThreshold", arg |-> n,
                    res |-> get75PercentThreshold(n)]
    /\ UNCHANGED <<UploadVars, otherVars>>

\* a number below 2^31 as limbs
BigOfInt(n) ==
    [l \in 1..NumLimbs |->
        IF l = 1 THEN n % LimbBase ELSE IF l = 2 THEN n \div LimbBase ELSE 0]

\* uint32(n) for a length n of any size, given and returned as limbs: the low
\* 32 bits, which are limb 1 and the low 32 - LimbBits bits of limb 2
Uint32OfBig(n) ==
    [l \in 1..NumLimbs |->
        IF l = 1 THEN n[1] ELSE IF l = 2 THEN n[2] % (2 ^ (32 - LimbBits)) ELSE 0]

\* the lengths of data.OracleData the conversion is applied to (an int of Go
\* has 64 bits on the platforms the challenger is built for)
LenSamples ==
    {BigOfInt(0), BigOfInt(LibKeccakBlockSizeBytes), BigSubOne(BigPow2(32)),
     BigPow2(32), BigPow2(32 + 1), BigSubOne(BigPow2(63))}

\* uint32(len(data.OracleData)), the claimedSize argument, is computed
ApplyClaimedSize ==
    /\ applied = NothingApplied
    /\ \E len \in LenSamples :
        applied' = [fn |-> "claimedSize", arg |-> len, res |-> Uint32OfBig(len)]
    /\ UNCHANGED <<UploadVars, otherVars>>

PureNext ==
    \/ ApplyGet75PercentThreshold
    \/ ApplyClaimedSize
    \/ ApplyBuildLeafs
    \/ ApplyLeafCount
    \/ ApplyGetKeccakLeaf
    \/ ApplyNewPreimageOracleData
    \/ ApplyIsRootPosition

SpecPure == Init /\ [][PureNext]_vars

----------------------------------------------------------------------------
(* AsyncGossiper (op-node/rollup/async): the callers and the handling      *)
(* loop.  A send on an unbuffered channel and its receive in the select of *)
(* the loop are one step; the call of PublishL2Payload and its return are  *)
(* two, the network being the environment.                                 *)

\* the variables of the uploader and of the types package
NotGossipVars == <<UploadVars, applied, safeVars, proxyVars, callerVars>>

\* Start: returns if the gossiper is running, else starts the handling loop
GossiperStart ==
    /\ IF running
       THEN UNCHANGED <<running, loop, ctxDone>>
       ELSE /\ running' = TRUE
            /\ loop' = "select"
            /\ ctxDone' = FALSE
    /\ UNCHANGED <<set, currentPayload, hasPayload, reqs, gossiped, publishErrors, clearedAt,
                   quiet, lastGet>>
    /\ UNCHANGED NotGossipVars

\* the holder of the ctx given to Start cancels it
GossiperStop ==
    /\ loop # "none"
    /\ ~ctxDone
    /\ ctxDone' = TRUE
    /\ UNCHANGED <<running, loop, set, currentPayload, hasPayload, reqs, gossiped, publishErrors,
                   clearedAt, quiet, lastGet>>
    /\ UNCHANGED NotGossipVars

\* p.set <- payload, which blocks while the channel is full
GossipSends ==
    /\ Len(set) < 1
    /\ LET payload == Len(gossiped) + 1
       IN /\ set' = Append(set, payload)
          /\ gossiped' = Append(gossiped, payload)
    /\ quiet' = FALSE
    /\ UNCHANGED <<running, loop, ctxDone, currentPayload, hasPayload, reqs, publishErrors,
                   clearedAt, lastGet>>

\* Gossip(payload), from the call to the return
Gossip ==
    /\ Len(gossiped) < MaxGossips
    /\ GossipSends
    /\ UNCHANGED NotGossipVars

\* LoopSet that leaves the payload in the channel
LoopSetKeepsPayload ==
    /\ loop = "select"
    /\ set # <<>>
    /\ reqs' = Append(reqs, [payload |-> Head(set), result |-> "inflight"])
    /\ loop' = "publish"
    /\ UNCHANGED <<running, ctxDone, set, currentPayload, hasPayload, gossiped, publishErrors,
                   clearedAt, quiet, lastGet>>
    /\ UNCHANGED NotGossipVars

\* case payload := <-p.set: gossip calls p.net.PublishL2Payload(ctx, payload)
LoopSet ==
    /\ loop = "select"
    /\ set # <<>>
    /\ set' = Tail(set)
    /\ reqs' = Append(reqs, [payload |-> Head(set), result |-> "inflight"])
    /\ loop' = "publish"
    /\ UNCHANGED <<running, ctxDone, currentPayload, hasPayload, gossiped, publishErrors,
                   clearedAt, quiet, lastGet>>
    /\ UNCHANGED NotGossipVars

\* PublishReturn that stores the payload whatever the network returned
PublishReturnStoresAlways ==
    /\ loop = "publish"
    /\ \E result \in {"ok", "error"} :
        /\ reqs' = [reqs EXCEPT ![Len(reqs)].result = result]
        /\ currentPayload' = reqs[Len(reqs)].payload
        /\ publishErrors' = IF result = "ok" THEN publishErrors ELSE publishErrors + 1
    /\ loop' = "select"
    /\ UNCHANGED <<running, ctxDone, set, hasPayload, gossiped, clearedAt, quiet, lastGet>>
    /\ UNCHANGED NotGossipVars

\* PublishReturn that never stores the payload
PublishReturnStoresNever ==
    /\ loop = "publish"
    /\ \E result \in {"ok", "error"} :
        /\ reqs' = [reqs EXCEPT ![Len(reqs)].result = result]
        /\ publishErrors' = IF result = "ok" THEN publishErrors ELSE publishErrors + 1
    /\ loop' = "select"
    /\ UNCHANGED <<running, ctxDone, set, currentPayload, hasPayload, gossiped, clearedAt,
                   quiet, lastGet>>
    /\ UNCHANGED NotGossipVars

\* PublishL2Payload returns: gossip stores the payload if err == nil, else it
\* logs the failure and records a publishing error
PublishReturn ==
    /\ loop = "publish"
    /\ \E result \in {"ok", "error"} :
        /\ reqs' = [reqs EXCEPT ![Len(reqs)].result = result]
        /\ IF result = "ok"
           THEN /\ currentPayload' = reqs[Len(reqs)].payload
                /\ UNCHANGED publishErrors
           ELSE /\ publishErrors' = publishErrors + 1
                /\ UNCHANGED currentPayload
    /\ loop' = "select"
    /\ UNCHANGED <<running, ctxDone, set, hasPayload, gossiped, clearedAt, quiet, lastGet>>
    /\ UNCHANGED NotGossipVars

\* p.get <- c; case c := <-p.get: the loop takes the request and enters
\* getPayload; the caller goes on to wait in <-c
GetTaken ==
    /\ loop = "select"
    /\ loop' = "reply"
    /\ lastGet' = [payload |-> NoPayload, quiet |-> quiet, returned |-> FALSE,
                   latest |-> IF gossiped = <<>> THEN NoPayload ELSE gossiped[Len(gossiped)],
                   errors |-> publishErrors]
    /\ UNCHANGED <<running, ctxDone, set, currentPayload, hasPayload, reqs, gossiped,
                   publishErrors, clearedAt, quiet>>

\* getPayload: c <- p.currentPayload, received by return <-c
GetReplied ==
    /\ loop = "reply"
    /\ loop' = "select"
    /\ lastGet' = [lastGet EXCEPT !.payload = currentPayload, !.returned = TRUE]
    /\ UNCHANGED <<running, ctxDone, set, currentPayload, hasPayload, reqs, gossiped,
                   publishErrors, clearedAt, quiet>>

\* Get() is called and the loop takes its request
Get ==
    /\ GetTaken
    /\ UNCHANGED NotGossipVars

\* the loop sends the reply and Get returns it
GetReturn ==
    /\ GetReplied
    /\ UNCHANGED NotGossipVars

\* p.clear <- struct{}{}; case <-p.clear: Clear returns, and the loop enters
\* clearPayload
ClearServed ==
    /\ loop = "select"
    /\ loop' = "clear"
    /\ clearedAt' = Len(reqs)
    /\ quiet' = TRUE
    /\ UNCHANGED <<running, ctxDone, set, currentPayload, hasPayload, reqs, gossiped,
                   publishErrors, lastGet>>

\* Clear(), from the call to the return
Clear ==
    /\ ClearServed
    /\ UNCHANGED NotGossipVars

\* clearPayload: p.currentPayload = nil
ClearPayload ==
    /\ loop = "clear"
    /\ currentPayload' = NoPayload
    /\ loop' = "select"
    /\ UNCHANGED <<running, ctxDone, set, hasPayload, reqs, gossiped, publishErrors, clearedAt,
                   quiet, lastGet>>
    /\ UNCHANGED NotGossipVars

\* LoopDone without the deferred p.running.Store(false)
LoopDoneKeepsRunning ==
    /\ loop = "select"
    /\ ctxDone
    /\ loop' = "none"
    /\ UNCHANGED <<running, ctxDone, set, currentPayload, hasPayload, reqs, gossiped,
                   publishErrors, clearedAt, quiet, lastGet>>
    /\ UNCHANGED NotGossipVars

\* case <-ctx.Done(): return, and the deferred p.running.Store(false)
LoopDone ==
    /\ loop = "select"
    /\ ctxDone
    /\ loop' = "none"
    /\ running' = FALSE
    /\ UNCHANGED <<ctxDone, set, currentPayload, hasPayload, reqs, gossiped, publishErrors,
                   clearedAt, quiet, lastGet>>
    /\ UNCHANGED NotGossipVars

GossiperNext ==
    \/ GossiperStart
    \/ GossiperStop
    \/ Gossip
    \/ LoopSet
    \/ PublishReturn
    \/ Get
    \/ GetReturn
    \/ Clear
    \/ ClearPayload
    \/ LoopDone

SpecGossiper == Init /\ [][GossiperNext]_vars

\* The select of the loop chooses among the ready cases at random, so a case
\* that is ready again and again is taken; a call of the network returns; the
\* caller of Get waits for the reply, so the send of getPayload goes through;
\* the assignment of clearPayload is a step of the loop alone.
GossiperFairness ==
    /\ SF_vars(LoopSet)
    /\ SF_vars(LoopDone)
    /\ WF_vars(PublishReturn)
    /\ WF_vars(GetReturn)
    /\ WF_vars(ClearPayload)

SpecGossiperLive == Init /\ [][GossiperNext]_vars /\ GossiperFairness

----------------------------------------------------------------------------
(* The calls of Gossip, Get and Clear in two steps: the call is made, and  *)
(* it returns when its channel operation has gone through.  pending is the *)
(* call of the one caller that has not returned.                           *)

NotCallVars == <<UploadVars, applied, safeVars, proxyVars, starters, extraLoops>>

\* Gossip, Get or Clear is called
CallMade ==
    /\ pending = "none"
    /\ \E fn \in {"Gossip", "Get", "Clear"} :
        /\ fn = "Gossip" => Len(gossiped) < MaxGossips
        /\ pending' = fn
    /\ UNCHANGED gossipVars
    /\ UNCHANGED NotCallVars

\* Gossip returns: the payload is in the channel
GossipReturns ==
    /\ pending = "Gossip"
    /\ GossipSends
    /\ pending' = "none"
    /\ UNCHANGED NotCallVars

\* p.get <- c goes through: the loop has received the request, and Get waits
\* for the reply
GetRequestTaken ==
    /\ pending = "Get"
    /\ GetTaken
    /\ UNCHANGED pending
    /\ UNCHANGED NotCallVars

\* Get returns: the loop has sent the reply
GetReturns ==
    /\ pending = "Get"
    /\ GetReplied
    /\ pending' = "none"
    /\ UNCHANGED NotCallVars

\* Clear returns: the loop has received the signal
ClearReturns ==
    /\ pending = "Clear"
    /\ ClearServed
    /\ pending' = "none"
    /\ UNCHANGED NotCallVars

CallsNext ==
    \/ GossiperStart
    \/ GossiperStop
    \/ CallMade
    \/ GossipReturns
    \/ GetRequestTaken
    \/ GetReturns
    \/ ClearReturns
    \/ ClearPayload
    \/ LoopSet
    \/ PublishReturn
    \/ LoopDone

\* A channel operation that can go through again and again goes through: the
\* select of the loop chooses among its ready cases at random.  Nobody has to
\* call Start.
CallsFairness ==
    /\ SF_vars(LoopSet)
    /\ SF_vars(LoopDone)
    /\ WF_vars(PublishReturn)
    /\ SF_vars(GossipReturns)
    /\ SF_vars(GetRequestTaken)
    /\ WF_vars(GetReturns)
    /\ SF_vars(ClearReturns)
    /\ WF_vars(ClearPayload)

SpecCalls == Init /\ [][CallsNext]_vars /\ CallsFairness

----------------------------------------------------------------------------
(* Start called by several goroutines at the same time.  The load and the  *)
(* store of p.running are two steps of a caller, and the go statement is a *)
(* third: other callers run in between.  loop is the first handling        *)
(* goroutine that runs, extraLoops counts the others.                      *)

NotStartVars == <<UploadVars, applied, safeVars, proxyVars, pending>>

\* the state of the gossiper that Start and the end of a loop leave alone
HandledVars == <<set, currentPayload, hasPayload, reqs, gossiped, publishErrors, clearedAt,
                 quiet, lastGet>>

\* the handling goroutines that run
LoopCount == (IF loop = "none" THEN 0 ELSE 1) + extraLoops

\* if p.running.Load() { return }
StartLoad(c) ==
    /\ starters[c] = "idle"
    /\ ~ctxDone
    /\ IF running
       THEN UNCHANGED starters
       ELSE starters' = [starters EXCEPT ![c] = "loaded"]
    /\ UNCHANGED <<running, loop, ctxDone, extraLoops>>
    /\ UNCHANGED HandledVars
    /\ UNCHANGED NotStartVars

\* p.running.Store(true)
StartStore(c) ==
    /\ starters[c] = "loaded"
    /\ starters' = [starters EXCEPT ![c] = "stored"]
    /\ running' = TRUE
    /\ UNCHANGED <<loop, ctxDone, extraLoops>>
    /\ UNCHANGED HandledVars
    /\ UNCHANGED NotStartVars

\* go func() { ... }(): a handling goroutine starts and Start returns
StartGo(c) ==
    /\ starters[c] = "stored"
    /\ starters' = [starters EXCEPT ![c] = "idle"]
    /\ IF loop = "none"
       THEN loop' = "select" /\ UNCHANGED extraLoops
       ELSE extraLoops' = extraLoops + 1 /\ UNCHANGED loop
    /\ UNCHANGED <<running, ctxDone>>
    /\ UNCHANGED HandledVars
    /\ UNCHANGED NotStartVars

\* the holder of the ctx given to the Start calls cancels it
StartersStop ==
    /\ ~ctxDone
    /\ ctxDone' = TRUE
    /\ UNCHANGED <<running, loop, starters, extraLoops>>
    /\ UNCHANGED HandledVars
    /\ UNCHANGED NotStartVars

\* case <-ctx.Done() in another handling goroutine, and its deferred
\* p.running.Store(false)
ExtraLoopDone ==
    /\ extraLoops > 0
    /\ ctxDone
    /\ extraLoops' = extraLoops - 1
    /\ running' = FALSE
    /\ UNCHANGED <<loop, ctxDone, starters>>
    /\ UNCHANGED HandledVars
    /\ UNCHANGED NotStartVars

StartNext ==
    \/ \E c \in Starters : StartLoad(c)
    \/ \E c \in Starters : StartStore(c)
    \/ \E c \in Starters : StartGo(c)
    \/ StartersStop
    \/ LoopDone
    \/ ExtraLoopDone

SpecStart == Init /\ [][StartNext]_vars

----------------------------------------------------------------------------
(* AsyncGossiper of the driver package: the payload is stored, and         *)
(* hasPayload set, before the payload is published.  Gossip, Get, Start    *)
(* and the end of the loop are the same code as in the async package.      *)
(* hasPayload is an atomic that HasPayload() loads at any time, so each    *)
(* store of it is a step of its own.                                       *)

\* case payload := <-p.set: setPayload writes p.currentPayload
DriverLoopSet ==
    /\ loop = "select"
    /\ set # <<>>
    /\ set' = Tail(set)
    /\ currentPayload' = Head(set)
    /\ loop' = "setPayload"
    /\ UNCHANGED <<running, ctxDone, hasPayload, reqs, gossiped, publishErrors, clearedAt,
                   quiet, lastGet>>
    /\ UNCHANGED NotGossipVars

\* setPayload: p.hasPayload.Store(true); then gossip calls
\* p.net.PublishL2Payload(ctx, p.currentPayload)
DriverSetFlag ==
    /\ loop = "setPayload"
    /\ hasPayload' = TRUE
    /\ reqs' = Append(reqs, [payload |-> currentPayload, result |-> "inflight"])
    /\ loop' = "publish"
    /\ UNCHANGED <<running, ctxDone, set, currentPayload, gossiped, publishErrors, clearedAt,
                   quiet, lastGet>>
    /\ UNCHANGED NotGossipVars

\* PublishL2Payload returns: gossip drops what it returned
DriverPublishReturn ==
    /\ loop = "publish"
    /\ \E result \in {"ok", "error"} :
        reqs' = [reqs EXCEPT ![Len(reqs)].result = result]
    /\ loop' = "select"
    /\ UNCHANGED <<running, ctxDone, set, currentPayload, hasPayload, gossiped, publishErrors,
                   clearedAt, quiet, lastGet>>
    /\ UNCHANGED NotGossipVars

\* Clear(): p.clear <- struct{}{}; case <-p.clear: Clear returns, and the loop
\* enters clearPayload
DriverClear ==
    /\ loop = "select"
    /\ loop' = "clear"
    /\ clearedAt' = Len(reqs)
    /\ quiet' = TRUE
    /\ UNCHANGED <<running, ctxDone, set, currentPayload, hasPayload, reqs, gossiped,
                   publishErrors, lastGet>>
    /\ UNCHANGED NotGossipVars

\* clearPayload: p.currentPayload = nil
DriverClearPayload ==
    /\ loop = "clear"
    /\ currentPayload' = NoPayload
    /\ loop' = "clearFlag"
    /\ UNCHANGED <<running, ctxDone, set, hasPayload, reqs, gossiped, publishErrors, clearedAt,
                   quiet, lastGet>>
    /\ UNCHANGED NotGossipVars

\* clearPayload: p.hasPayload.Store(false)
DriverClearFlag ==
    /\ loop = "clearFlag"
    /\ hasPayload' = FALSE
    /\ loop' = "select"
    /\ UNCHANGED <<running, ctxDone, set, currentPayload, reqs, gossiped, publishErrors,
                   clearedAt, quiet, lastGet>>
    /\ UNCHANGED NotGossipVars

DriverGossiperNext ==
    \/ GossiperStart
    \/ GossiperStop
    \/ Gossip
    \/ DriverLoopSet
    \/ DriverSetFlag
    \/ DriverPublishReturn
    \/ Get
    \/ GetReturn
    \/ DriverClear
    \/ DriverClearPayload
    \/ DriverClearFlag
    \/ LoopDone

SpecDriverGossiper == Init /\ [][DriverGossiperNext]_vars

----------------------------------------------------------------------------
(* LivenessModule.  A call of removeOwner is one step: it commits or it    *)
(* reverts as a whole.  The Safe is the environment: a call through        *)
(* execTransactionFromModule that fails inside the Safe changes nothing    *)
(* and does not revert the caller, which drops the success flag.           *)

NotSafeVars == <<UploadVars, applied, gossipVars, callerVars, proxyVars>>

\* the elements of a sequence
Range(seq) == {seq[j] : j \in DOMAIN seq}

\* the sequence without the element a
Without(seq, a) == SelectSeq(seq, LAMBDA x : x # a)

\* _isAboveMinOwners
IsAboveMinOwners(numOwners) == numOwners >= module.MIN_OWNERS

\* _getPrevOwner: SENTINEL_OWNERS for the first owner, the owner before it for
\* another, address(0) for an address that is not in the list
GetPrevOwner(owner, owners) ==
    LET at == {j \in DOMAIN owners : owners[j] = owner}
    IN IF at = {} THEN ZeroAddress
       ELSE IF 1 \in at THEN SENTINEL_OWNERS
       ELSE owners[(CHOOSE j \in at : \A m \in at : m <= j) - 1]

\* the entry owners[prev] of the linked list of the Safe
SafeNextOwner(owners, prev) ==
    IF prev = SENTINEL_OWNERS
    THEN (IF owners = <<>> THEN SENTINEL_OWNERS ELSE owners[1])
    ELSE IF prev \in Range(owners)
    THEN LET j == CHOOSE m \in DOMAIN owners : owners[m] = prev
         IN IF j = Len(owners) THEN SENTINEL_OWNERS ELSE owners[j + 1]
    ELSE ZeroAddress

\* _removeOwner: OwnerManager.removeOwner(prevOwner, owner, threshold) run by
\* the Safe; st is unchanged when one of its requirements fails
SafeRemoveOwner(st, prevOwner, owner, threshold) ==
    IF /\ Len(st.owners) - 1 >= threshold
       /\ owner # ZeroAddress
       /\ owner # SENTINEL_OWNERS
       /\ SafeNextOwner(st.owners, prevOwner) = owner
       /\ (st.threshold = threshold \/ (threshold >= 1 /\ threshold <= Len(st.owners) - 1))
    THEN [owners |-> Without(st.owners, owner), threshold |-> threshold]
    ELSE st

\* _swapToFallbackOwner: OwnerManager.swapOwner(prevOwner, oldOwner, FALLBACK_OWNER)
SafeSwapOwner(st, prevOwner, oldOwner, newOwner) ==
    IF /\ newOwner # ZeroAddress
       /\ newOwner # SENTINEL_OWNERS
       /\ newOwner \notin Range(st.owners)
       /\ oldOwner # ZeroAddress
       /\ oldOwner # SENTINEL_OWNERS
       /\ SafeNextOwner(st.owners, prevOwner) = oldOwner
    THEN [owners |-> [j \in DOMAIN st.owners |->
                        IF st.owners[j] = oldOwner THEN newOwner ELSE st.owners[j]],
          threshold |-> st.threshold]
    ELSE st

\* the loop of removeOwner (lines 91-97): the owners from index idx down to the
\* second are removed, each with threshold 1
RECURSIVE RemoveFromLast(_, _, _)
RemoveFromLast(st, owners, idx) ==
    IF idx > 1
    THEN RemoveFromLast(
             SafeRemoveOwner(st, GetPrevOwner(owners[idx], owners), owners[idx], 1),
             owners, idx - 1)
    ELSE st

\* LivenessExpired that lets through an owner last live exactly at the limit
LivenessExpiredOrAtLimit(owner) ==
    /\ now - module.LIVENESS_INTERVAL >= 0
    /\ lastLive[owner] <= now - module.LIVENESS_INTERVAL

\* the require of removeOwner: the subtraction is checked, so it reverts too
\* when LIVENESS_INTERVAL exceeds block.timestamp
LivenessExpired(owner) ==
    /\ now - module.LIVENESS_INTERVAL >= 0
    /\ lastLive[owner] < now - module.LIVENESS_INTERVAL

\* the state of the Safe after the body of removeOwner (lines 75-102)
RemoveOwnerBody(st, owner) ==
    LET owners == st.owners
        numOwnersAfter == Len(owners) - 1
    IN IF IsAboveMinOwners(numOwnersAfter)
       THEN SafeRemoveOwner(st, GetPrevOwner(owner, owners), owner,
                            get75PercentThreshold(numOwnersAfter))
       ELSE SafeSwapOwner(RemoveFromLast(st, owners, Len(owners)),
                          GetPrevOwner(owners[1], owners), owners[1],
                          module.FALLBACK_OWNER)

\* _verifyGuard
VerifyGuard(guard) == guard = LIVENESS_GUARD

\* VerifyFinalState without the check of the guard
VerifyFinalStateNoGuard(st, guard) ==
    /\ \/ IsAboveMinOwners(Len(st.owners))
       \/ (Len(st.owners) = 1 /\ st.owners[1] = module.FALLBACK_OWNER)
    /\ st.threshold = get75PercentThreshold(Len(st.owners))

\* _verifyFinalState
VerifyFinalState(st, guard) ==
    /\ \/ IsAboveMinOwners(Len(st.owners))
       \/ (Len(st.owners) = 1 /\ st.owners[1] = module.FALLBACK_OWNER)
    /\ st.threshold = get75PercentThreshold(Len(st.owners))
    /\ VerifyGuard(guard)

\* the owner lists of a Safe: no address twice
OwnerLists ==
    {o \in UNION {[1..n -> Addrs] : n \in 1..Cardinality(Addrs)} :
        \A j, m \in DOMAIN o : j # m => o[j] # o[m]}

\* the liveness intervals a module is deployed with
Intervals == {1, 2}

\* the minimum numbers of owners a module is deployed with: the constructor
\* takes any number, 0 included
MinOwners == 0..Cardinality(Addrs)

\* the fallback owners a module is deployed with: the constructor takes any
\* address, an owner of the Safe and address(0) included
FallbackOwners(owners) == {owners[1], owners[Len(owners)], OutsideAddr, ZeroAddress}

\* the constructor, for a Safe that has owners, a threshold and the guard
Constructor ==
    /\ ~module.deployed
    /\ \E owners \in OwnerLists, minOwners \in MinOwners, interval \in Intervals :
       \E fallbackOwner \in FallbackOwners(owners) :
        /\ \E threshold \in {1, get75PercentThreshold(Len(owners))} :
               safeThreshold' = threshold
        /\ safeOwners' = owners
        /\ module' = [deployed |-> TRUE, LIVENESS_INTERVAL |-> interval,
                      MIN_OWNERS |-> minOwners, FALLBACK_OWNER |-> fallbackOwner]
    /\ safeGuard' = LIVENESS_GUARD
    /\ UNCHANGED <<lastLive, now, lastRemove>>
    /\ UNCHANGED NotSafeVars

\* a block with the next timestamp
Tick ==
    /\ module.deployed
    /\ now < MaxTime
    /\ now' = now + 1
    /\ lastRemove' = NoRemove
    /\ UNCHANGED <<module, safeOwners, safeThreshold, safeGuard, lastLive>>
    /\ UNCHANGED NotSafeVars

\* an owner signs a transaction of the Safe: the guard records it as live
ShowLiveness ==
    /\ module.deployed
    /\ \E owner \in Range(safeOwners) :
        lastLive' = [lastLive EXCEPT ![owner] = now]
    /\ lastRemove' = NoRemove
    /\ UNCHANGED <<module, safeOwners, safeThreshold, safeGuard, now>>
    /\ UNCHANGED NotSafeVars

\* the owners of the Safe set another guard
SetGuard ==
    /\ module.deployed
    /\ safeGuard' = IF safeGuard = LIVENESS_GUARD THEN OtherGuard ELSE LIVENESS_GUARD
    /\ lastRemove' = NoRemove
    /\ UNCHANGED <<module, safeOwners, safeThreshold, lastLive, now>>
    /\ UNCHANGED NotSafeVars

\* removeOwner(owner), called by anyone
RemoveOwner ==
    /\ module.deployed
    /\ \E owner \in AllAddrs :
        LET before == [owners |-> safeOwners, threshold |-> safeThreshold]
            after == RemoveOwnerBody(before, owner)
            commits == LivenessExpired(owner) /\ VerifyFinalState(after, safeGuard)
            final == IF commits THEN after ELSE before
        IN /\ safeOwners' = final.owners
           /\ safeThreshold' = final.threshold
           /\ lastRemove' = [called |-> TRUE, owner |-> owner, reverted |-> ~commits,
                              ownersBefore |-> safeOwners, thresholdBefore |-> safeThreshold]
    /\ UNCHANGED <<module, safeGuard, lastLive, now>>
    /\ UNCHANGED NotSafeVars

LivenessNext ==
    \/ Constructor
    \/ Tick
    \/ ShowLiveness
    \/ SetGuard
    \/ RemoveOwner

SpecLiveness == Init /\ [][LivenessNext]_vars

----------------------------------------------------------------------------
(* NodeProxyBackend.  A request is served in steps, one per call it makes  *)
(* out of the backend: con.Leader, then the rollup client.  The conductor  *)
(* and the client are the environment; leadership changes at any time.     *)

NotProxyVars == <<UploadVars, applied, gossipVars, callerVars, safeVars>>

\* the methods of NodeProxyAPI with their arguments
ProxyMethods ==
    {[method |-> "SyncStatus", blockNum |-> 0]}
        \cup {[method |-> "OutputAtBlock", blockNum |-> b] : b \in BlockNums}

\* what the rollup client returns: a value, or its own error
ClientReturns(method) ==
    {[value |-> method, err |-> "nil"], [value |-> "nil", err |-> "clientError"]}

\* the conductor gains or loses leadership
LeaderChange ==
    /\ leader' = ~leader
    /\ UNCHANGED proxy
    /\ UNCHANGED NotProxyVars

\* SyncStatus(ctx) or OutputAtBlock(ctx, blockNum) is called
ProxyCall(r) ==
    /\ proxy[r].pc \in {"idle", "done"}
    /\ \E m \in ProxyMethods :
        proxy' = [proxy EXCEPT ![r] =
                    [NoRequest EXCEPT !.pc = "called", !.method = m.method, !.blockNum = m.blockNum]]
    /\ UNCHANGED leader
    /\ UNCHANGED NotProxyVars

\* api.con.Leader(ctx)
ProxyLeader(r) ==
    /\ proxy[r].pc = "called"
    /\ proxy' = [proxy EXCEPT ![r].pc = "checked",
                              ![r].leaderCalls = @ + 1,
                              ![r].isLeader = leader]
    /\ UNCHANGED leader
    /\ UNCHANGED NotProxyVars

\* return nil, ErrNotLeader
ProxyNotLeader(r) ==
    /\ proxy[r].pc = "checked"
    /\ ~proxy[r].isLeader
    /\ proxy' = [proxy EXCEPT ![r].pc = "done",
                              ![r].ret = [value |-> "nil", err |-> ErrNotLeader]]
    /\ UNCHANGED leader
    /\ UNCHANGED NotProxyVars

\* ProxyForward without the leadership check
ProxyForwardUnchecked(r) ==
    /\ proxy[r].pc = "checked"
    /\ proxy' = [proxy EXCEPT ![r].pc = "forwarded",
                              ![r].clientCalls = Append(@, [method |-> proxy[r].method,
                                                            blockNum |-> proxy[r].blockNum])]
    /\ UNCHANGED leader
    /\ UNCHANGED NotProxyVars

\* api.client.SyncStatus(ctx) or api.client.OutputAtBlock(ctx, blockNum) is called
ProxyForward(r) ==
    /\ proxy[r].pc = "checked"
    /\ proxy[r].isLeader
    /\ proxy' = [proxy EXCEPT ![r].pc = "forwarded",
                              ![r].clientCalls = Append(@, [method |-> proxy[r].method,
                                                            blockNum |-> proxy[r].blockNum])]
    /\ UNCHANGED leader
    /\ UNCHANGED NotProxyVars

\* the client returns and the backend returns what it returned
ProxyClientReturn(r) ==
    /\ proxy[r].pc = "forwarded"
    /\ \E res \in ClientReturns(proxy[r].method) :
        proxy' = [proxy EXCEPT ![r].pc = "done", ![r].ret = res]
    /\ UNCHANGED leader
    /\ UNCHANGED NotProxyVars

ProxyNext ==
    \/ LeaderChange
    \/ \E r \in Requests : ProxyCall(r)
    \/ \E r \in Requests : ProxyLeader(r)
    \/ \E r \in Requests : ProxyNotLeader(r)
    \/ \E r \in Requests : ProxyForward(r)
    \/ \E r \in Requests : ProxyClientReturn(r)

SpecProxy == Init /\ [][ProxyNext]_vars

----------------------------------------------------------------------------
(* Observations the properties are stated on. *)

\* an UploadPreimage call has returned (and no other is running)
Returned == pc = "idle" /\ ncalls > 0

\* the least element of a non-empty set of numbers
Min2(S) == CHOOSE x \in S : \A y \in S : x <= y

Last(seq) == seq[Len(seq)]

CallsOf(name) == {j \in DOMAIN calls : calls[j].call = name}

IsSendOf(e, kind) == e.call = "Send" /\ e.args.kind = kind

IsLeafSend(e) == IsSendOf(e, "leaves")

\* the leaf transactions passed to Send, in the order of the calls
LeafSends == SelectSeq(calls, IsLeafSend)

\* a call of the environment that returned without error
WithoutError(e) == e.result \in {"ok", "success", "failed"}

\* no call of the environment made so far returned an error
NoFailure == \A j \in DOMAIN calls : calls[j].result # "error"

EnvErrors == {errRand, errBuild, errSend, errCanceled}

\* an error with at least one layer of context around an error of the environment
IsWrappedFailure(e) ==
    /\ Len(e) >= 2
    /\ <<Last(e)>> \in EnvErrors
    /\ \A l \in 1..(Len(e) - 1) : <<e[l]>> \notin EnvErrors /\ <<e[l]>> # errNotSupported

\* a * 10 + d on big.Int values, the carry running from the least limb up
RECURSIVE BigMul10AddFrom(_, _, _, _)
BigMul10AddFrom(a, carry, l, out) ==
    IF l > NumLimbs THEN out
    ELSE LET cur == a[l] * 10 + carry
         IN BigMul10AddFrom(a, cur \div LimbBase, l + 1, Append(out, cur % LimbBase))

BigMul10Add(a, d) == BigMul10AddFrom(a, d, 1, <<>>)

\* the big.Int a sequence of decimal digits denotes
RECURSIVE ParseDecimalFrom(_, _, _)
ParseDecimalFrom(digits, n, acc) ==
    IF n > Len(digits) THEN acc
    ELSE LET next == BigMul10Add(acc, digits[n])
         IN IF Len(next) = NumLimbs
            THEN ParseDecimalFrom(digits, n + 1, next)
            ELSE next

ParseDecimal(digits) == ParseDecimalFrom(digits, 1, BigZero)

----------------------------------------------------------------------------
(* C1: UploadPreimage never returns nil.  When the entropy source, both    *)
(* builds and every Send returned without error it returns exactly         *)
(* errNotSupported; otherwise it returns a failure of the environment      *)
(* wrapped in context.                                                     *)
C1_NeverNil ==
    Returned =>
        /\ ret # Nil
        /\ ret # Pending
        /\ NoFailure => ret = errNotSupported
        /\ ~NoFailure => IsWrappedFailure(ret)

\* a call that sent the init transaction and two leaf transactions has returned
C1_Witness ==
    /\ Returned
    /\ NoFailure
    /\ Len(LeafSends) >= 2
    /\ ret = errNotSupported

(* C2: InitLargePreimage is called at most once, and every AddLeaves call  *)
(* and every Send of a leaf transaction comes after exactly one            *)
(* InitLargePreimage call and after the Send of the init transaction has   *)
(* returned without error.                                                 *)
C2_InitFirst ==
    /\ Cardinality(CallsOf("InitLargePreimage")) <= 1
    /\ \A j \in DOMAIN calls :
        (calls[j].call = "AddLeaves" \/ IsLeafSend(calls[j])) =>
            /\ Cardinality({b \in 1..(j - 1) : calls[b].call = "InitLargePreimage"}) = 1
            /\ \E a \in 1..(j - 1) :
                /\ IsSendOf(calls[a], "init")
                /\ calls[a].result \in {"success", "failed"}
                /\ \E b \in 1..(a - 1) : calls[b].call = "InitLargePreimage"

\* AddLeaves was called and a leaf transaction was passed to Send
C2_Witness ==
    /\ CallsOf("AddLeaves") # {}
    /\ Len(LeafSends) >= 1

(* C3: the leaf transactions passed to Send are a prefix of the candidates *)
(* AddLeaves returned, in their order (so none is sent twice or retried);  *)
(* every one but the last sent has returned without error; and at most one *)
(* transaction is in flight.                                               *)
C3_SequentialSends ==
    /\ Len(LeafSends) <= Len(candidates)
    /\ \A j \in 1..Len(LeafSends) :
        /\ LeafSends[j].args = candidates[j]
        /\ j < Len(LeafSends) => LeafSends[j].result \in {"success", "failed"}
    /\ Cardinality(InFlight) <= 1

\* the second candidate is in flight after the first was mined
C3_Witness ==
    /\ Len(LeafSends) = 2
    /\ LeafSends[2].result = "inflight"
    /\ LeafSends[1].result \in {"success", "failed"}

(* C4: when the build of the init transaction fails, or its Send returns   *)
(* an error, UploadPreimage has returned an initialization failure that    *)
(* wraps the cause, AddLeaves was not called and no leaf transaction was   *)
(* passed to Send; when the build failed, Send was not called at all.      *)
C4_InitFailureAborts ==
    /\ (\E j \in CallsOf("InitLargePreimage") : calls[j].result = "error") =>
        /\ Returned
        /\ ret[1].msg = "failed to initialize large preimage"
        /\ <<Last(ret)>> = errBuild
        /\ CallsOf("AddLeaves") = {}
        /\ CallsOf("Send") = {}
    /\ (\E j \in CallsOf("Send") : IsSendOf(calls[j], "init") /\ calls[j].result = "error") =>
        /\ Returned
        /\ ret[1].msg = "failed to initialize large preimage"
        /\ <<Last(ret)>> = errSend
        /\ CallsOf("AddLeaves") = {}
        /\ LeafSends = <<>>

\* the Send of the init transaction failed after leaves had been built
C4_Witness ==
    /\ Returned
    /\ Len(leafs) >= 1
    /\ \E j \in CallsOf("Send") : IsSendOf(calls[j], "init") /\ calls[j].result = "error"

(* C5: one call uses one uuid: InitLargePreimage, the init candidate,      *)
(* AddLeaves and the leaf candidates all carry the uuid newUUID returned,  *)
(* and the uuid printed in the error the call returns is the decimal form  *)
(* of that same uuid.                                                      *)
C5_SingleUUID ==
    /\ \A j \in DOMAIN calls :
        calls[j].call \in {"InitLargePreimage", "AddLeaves", "Send"} =>
            /\ calls[j].args.uuid = uuid
            /\ calls[j].args.uuid = calls[Min2(CallsOf("InitLargePreimage"))].args.uuid
    /\ Returned =>
        \A l \in DOMAIN ret :
            ret[l].uuid # NoUUID =>
                /\ CallsOf("InitLargePreimage") # {}
                /\ ParseDecimal(ret[l].uuid) = calls[Min2(CallsOf("InitLargePreimage"))].args.uuid

\* init succeeded, the AddLeaves build failed, and the error names a large uuid
C5_Witness ==
    /\ Returned
    /\ \E j \in CallsOf("AddLeaves") : calls[j].result = "error"
    /\ ret[1].msg = "failed to add leaves to large preimage"
    /\ ret[1].uuid # NoUUID
    /\ uuid = BigAllOnesLessOne

\* the Send of a leaf transaction returned an error
LeafFailure == \E j \in DOMAIN calls : IsLeafSend(calls[j]) /\ calls[j].result = "error"

(* C6: when the Send of the k-th leaf candidate returns an error,          *)
(* UploadPreimage has returned a submission failure wrapping it; the leaf  *)
(* transactions passed to Send are exactly candidates 1..k, each once, the *)
(* ones before k mined; and the next call starts with nothing of the       *)
(* failed upload: no uuid, no leaves, no candidates, no position.          *)
C6_LeafFailureAborts ==
    [][ /\ LeafFailure' =>
            /\ Returned'
            /\ ret'[1].msg = "failed to add leaves to large preimage"
            /\ <<Last(ret')>> = errSend
            /\ Last(calls').result = "error"
            /\ IsLeafSend(Last(calls'))
            /\ Len(LeafSends') = Last(calls').args.seq
            /\ \A j \in 1..Len(LeafSends') :
                /\ LeafSends'[j].args = candidates'[j]
                /\ j < Len(LeafSends') => LeafSends'[j].result \in {"success", "failed"}
        /\ (LeafFailure /\ pc' # "idle") =>
            /\ uuid' = NoUUID
            /\ leafs' = <<>>
            /\ stateMatrix' = <<>>
            /\ candidates' = <<>>
            /\ calls' = <<>>
            /\ i' = 0
            /\ k' = 1
      ]_vars

\* the second of three leaf candidates failed after the first was mined
C6_Witness ==
    /\ Returned
    /\ LeafFailure
    /\ Len(LeafSends) = 2
    /\ LeafSends[1].result = "failed"
    /\ Len(candidates) >= 3

(* C7: when the entropy source fails, UploadPreimage has returned the      *)
(* allocation failure wrapping it and no call to InitLargePreimage,        *)
(* AddLeaves or Send was made.                                             *)
C7_UUIDFailureAborts ==
    (\E j \in CallsOf("rand.Int") : calls[j].result = "error") =>
        /\ Returned
        /\ Len(ret) = 2
        /\ ret[1].msg = "failed to generate UUID"
        /\ <<Last(ret)>> = errRand
        /\ CallsOf("InitLargePreimage") = {}
        /\ CallsOf("AddLeaves") = {}
        /\ CallsOf("Send") = {}

\* the entropy source failed after leaves had been built
C7_Witness ==
    /\ Returned
    /\ \E j \in CallsOf("rand.Int") : calls[j].result = "error"
    /\ Len(leafs) >= 2

(* C8: a Send that returns a reverted receipt and no error does not abort: *)
(* after a reverted init transaction AddLeaves is the next call, after a   *)
(* reverted leaf transaction the next candidate is the next one sent (or,  *)
(* after the last, errNotSupported is returned), and a call in which no    *)
(* call of the environment returned an error returns errNotSupported.      *)
C8_RevertIsNotFatal ==
    /\ \A j \in DOMAIN calls :
        (calls[j].call = "Send" /\ calls[j].result = "failed") =>
            IF calls[j].args.kind = "init"
            THEN IF j < Len(calls)
                 THEN calls[j + 1].call = "AddLeaves"
                 ELSE pc = "add" /\ ret = Pending
            ELSE IF j < Len(calls)
                 THEN /\ calls[j + 1].call = "Send"
                      /\ calls[j + 1].args = candidates[calls[j].args.seq + 1]
                 ELSE IF calls[j].args.seq < Len(candidates)
                      THEN pc = "leafLoop" /\ k = calls[j].args.seq + 1 /\ ret = Pending
                      ELSE \/ pc = "leafLoop" /\ k = calls[j].args.seq + 1 /\ ret = Pending
                           \/ Returned /\ ret = errNotSupported
    /\ (Returned /\ \A j \in DOMAIN calls : WithoutError(calls[j])) => ret = errNotSupported

\* the init transaction and a leaf transaction reverted, and the call returned
C8_Witness ==
    /\ Returned
    /\ ret = errNotSupported
    /\ \E j \in DOMAIN calls : IsSendOf(calls[j], "init") /\ calls[j].result = "failed"
    /\ \E j \in DOMAIN calls : IsLeafSend(calls[j]) /\ calls[j].result = "failed"
    /\ Len(logs) >= 3

(* C9: AddLeaves is called at most once per UploadPreimage, with all       *)
(* LeafCount() leaves in increasing index order and finalize = false, and  *)
(* no call other than rand.Int, InitLargePreimage, AddLeaves and the Send  *)
(* of their candidates is made: none finalizes.                            *)
C9_AddLeavesOnceNoFinalize ==
    /\ Cardinality(CallsOf("AddLeaves")) <= 1
    /\ \A j \in CallsOf("AddLeaves") :
        /\ calls[j].args.finalize = FALSE
        /\ Len(calls[j].args.leaves) = LeafCount(data)
        /\ \A m \in 1..Len(calls[j].args.leaves) : calls[j].args.leaves[m].Index = m - 1
    /\ \A j \in DOMAIN calls :
        /\ calls[j].call \in {"rand.Int", "InitLargePreimage", "AddLeaves", "Send"}
        /\ calls[j].call = "Send" => calls[j].args.kind \in {"init", "leaves"}

\* AddLeaves was called with three leaves
C9_Witness ==
    \E j \in CallsOf("AddLeaves") : Len(calls[j].args.leaves) >= 3

\* the absorptions of a preimage, from its bytes alone
ExpectedAbsorbed(bytes) ==
    LET d == [OracleData |-> bytes, OracleOffset |-> 0]
    IN [m \in 1..LeafCount(d) |->
           [block |-> GetKeccakLeaf(d, m - 1), last |-> (m = LeafCount(d))]]

(* C10: once the leaf loop is over, the leaf sequence has LeafCount()      *)
(* entries, entry i has Index = i, Input = GetKeccakLeaf(i) and the        *)
(* commitment taken after the absorptions 0..i; the sponge of the call     *)
(* has absorbed exactly the blocks 0..LeafCount()-1 in that order, each    *)
(* once, with isLast true for the last only; all of it is a function of    *)
(* OracleData; and no call to the entropy source, the gateway or the tx    *)
(* manager is made before the sequence is complete.                        *)
C10_LeafSequence ==
    /\ (pc = "loop" /\ i < LeafCount(data)) => calls = <<>>
    /\ (pc \notin {"loop", "idle"} \/ calls # <<>>) =>
        LET absorbed == ExpectedAbsorbed(data.OracleData)
        IN /\ Len(leafs) = LeafCount(data)
           /\ stateMatrix = absorbed
           /\ \A m \in 1..Len(leafs) :
               /\ leafs[m].Index = m - 1
               /\ leafs[m].Input = GetKeccakLeaf(data, m - 1)
               /\ leafs[m].StateCommitment = StateCommitment(SubSeq(absorbed, 1, m))

\* the second call on the uploader has built three leaves, the last one partial
C10_Witness ==
    /\ ncalls = 2
    /\ pc = "uuid"
    /\ Len(leafs) = 3
    /\ Len(data.OracleData) % LibKeccakBlockSizeBytes # 0

----------------------------------------------------------------------------
(* Properties of the leaf loop and of the types package (SpecPure). *)

\* the smaller of the two lengths
MinLen(l1, l2) == IF Len(l1) <= Len(l2) THEN Len(l1) ELSE Len(l2)

\* the bytes of the data that lie in block m (from 1), none if it has no such block
RawBlock(d, m) ==
    LET from == (m - 1) * LibKeccakBlockSizeBytes
        rest == Len(d.OracleData) - from
        n == IF rest <= 0 THEN 0
             ELSE IF rest < LibKeccakBlockSizeBytes THEN rest ELSE LibKeccakBlockSizeBytes
    IN [j \in 1..n |-> d.OracleData[from + j]]

\* the first block (from 1) in which the bytes of two different preimages differ
FirstDiffData(d1, d2) ==
    Min2({m \in 1..(MaxBlocks + 2) : RawBlock(d1, m) # RawBlock(d2, m)})

\* the first position at which the blocks of the two leaf sequences differ,
\* one past the shorter sequence if none does
FirstDiff(l1, l2) ==
    LET diff == {m \in 1..MinLen(l1, l2) : l1[m].Input # l2[m].Input}
    IN IF diff = {} THEN MinLen(l1, l2) + 1 ELSE Min2(diff)

\* the two leaf sequences agree on the commitments before position j and
\* disagree on every commitment from j on (as far as both have one)
ChainedFrom(l1, l2, j) ==
    \A m \in 1..MinLen(l1, l2) :
        IF m < j
        THEN l1[m].StateCommitment = l2[m].StateCommitment
        ELSE l1[m].StateCommitment # l2[m].StateCommitment

(* C11 as stated: for any two preimages that first differ in block j, the  *)
(* commitments of the leaves before j are equal and those of the leaves    *)
(* from j on differ.                                                       *)
C11_ChainDependentAnyPreimages ==
    applied.fn = "BuildLeafs" =>
        (applied.arg[1] # applied.arg[2] =>
            ChainedFrom(applied.res[1], applied.res[2],
                        FirstDiffData(applied.arg[1], applied.arg[2])))

(* C11, amended: for two preimages with the same number of leaves whose    *)
(* zero-padded blocks first differ in block j, the commitments of the      *)
(* leaves before j are equal and those of the leaves from j on differ.     *)
C11_ChainDependent ==
    applied.fn = "BuildLeafs" =>
        LET l1 == applied.res[1]
            l2 == applied.res[2]
        IN (Len(l1) = Len(l2) /\ FirstDiff(l1, l2) <= Len(l1)) =>
               ChainedFrom(l1, l2, FirstDiff(l1, l2))

\* two preimages of two full blocks that differ in block 0 and agree on block 1
C11_Witness ==
    /\ applied.fn = "BuildLeafs"
    /\ Len(applied.res[1]) = 2
    /\ Len(applied.res[2]) = 2
    /\ applied.res[1][1].Input # applied.res[2][1].Input
    /\ applied.res[1][2].Input = applied.res[2][2].Input
    /\ applied.res[1][2].StateCommitment # applied.res[2][2].StateCommitment

----------------------------------------------------------------------------
(* Cancellation of the context (SpecCancel). *)

\* the calls made after the context was cancelled
CallsAfterCancel == {j \in DOMAIN calls : j > cancelledAt}

(* C12: when the context is cancelled in the middle of an upload, the call *)
(* makes no gateway call and passes no transaction to Send after the       *)
(* cancellation, and what it returns is the cancellation error.            *)
C12_CancelStopsUpload ==
    cancelledAt # NotCancelled =>
        /\ \A j \in CallsAfterCancel :
               calls[j].call \notin {"InitLargePreimage", "AddLeaves", "Send"}
        /\ Returned => <<Last(ret)>> = errCanceled

----------------------------------------------------------------------------
(* The identifier of an upload. *)

\* 0 <= n < 2^130
InUUIDRange(n) == ~BigLess(n, BigZero) /\ BigLess(n, BigPow2(UUIDBits))

(* C13: the identifier newUUID returned is an n with 0 <= n < 2^130. *)
C13_UUIDInRange ==
    uuid # NoUUID => InUUIDRange(uuid)

\* newUUID returned the greatest value rand.Int can give it
C13_Witness ==
    /\ pc = "init"
    /\ uuid = BigSubOne(NewUUIDMax)
    /\ Last(calls).call = "rand.Int"
    /\ Last(calls).result = "ok"

(* C14: newUUID can return every n with 0 <= n < 2^130, 2^130 - 1 included, *)
(* and nothing else.                                                       *)
C14_UUIDFullRange ==
    pc = "uuid" => NewUUIDValues = {n \in UUIDSamples : InUUIDRange(n)}

----------------------------------------------------------------------------
(* The types package (SpecPure). *)

(* C15: LeafCount is the least number of blocks of 136 bytes that hold the *)
(* data, ceil(len / 136): 0 for no data, 1 for 136 bytes, 2 for 272 and 3  *)
(* for 273.                                                                *)
C15_LeafCountIsCeil ==
    applied.fn = "LeafCount" =>
        LET n == Len(applied.arg.OracleData)
            c == applied.res
        IN /\ c >= 0
           /\ c * LibKeccakBlockSizeBytes >= n
           /\ c > 0 => (c - 1) * LibKeccakBlockSizeBytes < n
           /\ n = 0 => c = 0
           /\ n = LibKeccakBlockSizeBytes => c = 1
           /\ n = 2 * LibKeccakBlockSizeBytes => c = 2
           /\ n = 2 * LibKeccakBlockSizeBytes + 1 => c = 3

\* one byte more than two blocks makes three leaves
C15_Witness ==
    /\ applied.fn = "LeafCount"
    /\ Len(applied.arg.OracleData) = 2 * LibKeccakBlockSizeBytes + 1
    /\ applied.res = 3

(* C16: for an index below LeafCount, GetKeccakLeaf is the bytes of the    *)
(* data in that block from the start of the block on, the rest zero.       *)
C16_LeafLeftAligned ==
    (applied.fn = "GetKeccakLeaf" /\ applied.arg[2] < LeafCount(applied.arg[1])) =>
        LET bytes == applied.arg[1].OracleData
            from == applied.arg[2] * LibKeccakBlockSizeBytes
        IN \A j \in 1..LibKeccakBlockSizeBytes :
               applied.res[j] = IF from + j <= Len(bytes) THEN bytes[from + j] ELSE 0

(* C17: for data whose last block holds r < 136 bytes, GetKeccakLeaf of    *)
(* the last index is 136 - r zero bytes followed by those r bytes; for 136 *)
(* bytes and one byte 9 the block at index 1 is 135 zero bytes, then 9.    *)
C17_PartialLeafRightAligned ==
    applied.fn = "GetKeccakLeaf" =>
        LET bytes == applied.arg[1].OracleData
            idx == applied.arg[2]
            r == Len(bytes) % LibKeccakBlockSizeBytes
        IN (r > 0 /\ idx = LeafCount(applied.arg[1]) - 1) =>
               /\ \A j \in 1..LibKeccakBlockSizeBytes :
                      applied.res[j] =
                          IF j <= LibKeccakBlockSizeBytes - r THEN 0
                          ELSE bytes[Len(bytes) - LibKeccakBlockSizeBytes + j]
               /\ (Len(bytes) = LibKeccakBlockSizeBytes + 1 /\ idx = 1) =>
                      applied.res = [j \in 1..LibKeccakBlockSizeBytes |->
                                        IF j = LibKeccakBlockSizeBytes THEN 9 ELSE 0]

\* the block at index 1 of 137 bytes ends in the last byte of the data
C17_Witness ==
    /\ applied.fn = "GetKeccakLeaf"
    /\ Len(applied.arg[1].OracleData) = LibKeccakBlockSizeBytes + 1
    /\ applied.arg[2] = 1
    /\ applied.res[1] = 0
    /\ applied.res[LibKeccakBlockSizeBytes] = 9

(* C18: GetKeccakLeaf returns a block of 136 bytes for every index, and a  *)
(* block of 136 zero bytes for an index that is LeafCount or more.         *)
C18_LeafPastDataIsZero ==
    applied.fn = "GetKeccakLeaf" =>
        /\ DOMAIN applied.res = 1..LibKeccakBlockSizeBytes
        /\ \A j \in 1..LibKeccakBlockSizeBytes : applied.res[j] \in 0..255
        /\ applied.arg[2] >= LeafCount(applied.arg[1]) =>
               \A j \in 1..LibKeccakBlockSizeBytes : applied.res[j] = 0

\* index 2 of 137 bytes of data, which has 2 leaves
C18_Witness ==
    /\ applied.fn = "GetKeccakLeaf"
    /\ Len(applied.arg[1].OracleData) = LibKeccakBlockSizeBytes + 1
    /\ applied.arg[2] = 2
    /\ \A j \in 1..LibKeccakBlockSizeBytes : applied.res[j] = 0

(* C19: the constructor sets IsLocal exactly for a key that is empty or    *)
(* whose first byte is 0.                                                  *)
C19_IsLocalIffZeroKey ==
    applied.fn = "NewPreimageOracleData" =>
        (applied.res.IsLocal <=> (Len(applied.arg[1]) = 0 \/ applied.arg[1][1] = 0))

(* C20: the constructor stores the key, the data and the offset it is      *)
(* given, and sets IsLocal for a key whose first byte is 1 and not for a   *)
(* key whose first byte is 0.                                              *)
C20_ConstructorStores ==
    applied.fn = "NewPreimageOracleData" =>
        LET key == applied.arg[1]
        IN /\ applied.res.OracleKey = key
           /\ applied.res.OracleData = applied.arg[2]
           /\ applied.res.OracleOffset = applied.arg[3]
           /\ (Len(key) > 0 /\ key[1] = 1) => applied.res.IsLocal
           /\ (Len(key) > 0 /\ key[1] = 0) => ~applied.res.IsLocal

\* the key {1,2,3} with the data {4,5,6} at offset 7
C20_Witness ==
    /\ applied.fn = "NewPreimageOracleData"
    /\ applied.arg = <<(<<1, 2, 3>>), (<<4, 5, 6>>), 7>>
    /\ applied.res.IsLocal
    /\ applied.res.OracleKey = <<1, 2, 3>>

(* C21: the Position of a generalized index g is the root position exactly *)
(* when g is 0 or 1; it is not for 2 and every greater index.              *)
C21_RootIffZeroOrOne ==
    applied.fn = "IsRootPosition" =>
        (applied.res <=> applied.arg \in {0, 1})

\* the generalized index 0 is taken as the root, as 1 is
C21_Witness ==
    /\ applied.fn = "IsRootPosition"
    /\ applied.arg = 0
    /\ applied.res

----------------------------------------------------------------------------
(* AsyncGossiper (SpecGossiper, SpecGossiperLive). *)

\* the payloads passed to PublishL2Payload, in the order of the calls
ReqPayloads == [j \in 1..Len(reqs) |-> reqs[j].payload]

\* the calls of PublishL2Payload with the payload p and the result r
ReqsOf(p, r) == {j \in DOMAIN reqs : reqs[j].payload = p /\ reqs[j].result = r}

\* the handling loop runs and was not told to stop
LoopRuns == loop # "none" /\ ~ctxDone

\* Gossip(p) has returned and the loop has not finished handling p
Waiting(p) == p \in {set[j] : j \in DOMAIN set} \/ ReqsOf(p, "inflight") # {}

(* C22: with the loop running and the publish succeeding, a payload that   *)
(* was gossiped is eventually published and is eventually the payload Get  *)
(* returns.                                                                *)
C22_GossipedIsPublished ==
    \A p \in 1..MaxGossips :
        (Waiting(p) /\ LoopRuns)
            ~> \/ ReqsOf(p, "ok") # {} /\ currentPayload = p
               \/ ReqsOf(p, "error") # {}
               \/ ~LoopRuns

\* the second payload was published and a Get returned it
C22_Witness ==
    /\ Len(gossiped) = 2
    /\ ReqsOf(2, "ok") # {}
    /\ currentPayload = 2
    /\ lastGet.returned
    /\ lastGet.payload = 2

C24_HeldWasPublished ==
    /\ currentPayload # NoPayload => ReqsOf(currentPayload, "ok") # {}
    /\ ReqsOf(currentPayload, "error") = {}
    /\ lastGet.returned => ReqsOf(lastGet.payload, "error") = {}
    /\ publishErrors = Cardinality({j \in DOMAIN reqs : reqs[j].result = "error"})

\* one publish succeeded and the next failed: one error recorded
C24_Witness ==
    /\ Len(reqs) = 2
    /\ reqs[1].result = "ok"
    /\ reqs[2].result = "error"
    /\ publishErrors = 1
    /\ loop = "select"

(* C25: once a publish has failed, the gossiper holds no payload, also     *)
(* when an earlier payload had been published and stored.                  *)
C25_FailedPublishClears ==
    (reqs # <<>> /\ Last(reqs).result = "error") => currentPayload = NoPayload

(* C26: a Get called after Clear returned, with no Gossip called in        *)
(* between, returns nil.                                                   *)
C26_GetAfterClearIsNil ==
    (lastGet.returned /\ lastGet.quiet) => lastGet.payload = NoPayload

(* C27: after the context is cancelled the handling loop exits and the     *)
(* running flag becomes false, and the flag becomes true again only by a   *)
(* Start.                                                                  *)
C27_StopEnds ==
    /\ (ctxDone /\ loop # "none") ~> (loop = "none" /\ ~running)
    /\ [][(~running /\ running') => GossiperStart]_vars

\* the loop handled a payload, was stopped and has exited
C27_Witness ==
    /\ ctxDone
    /\ loop = "none"
    /\ ~running
    /\ reqs # <<>>

(* C28 (driver package): while no publish has succeeded, HasPayload is    *)
(* false, no payload is held and Get has returned no payload.              *)
C28_FailedPublishNeverHeld ==
    (\A j \in DOMAIN reqs : reqs[j].result # "ok") =>
        /\ ~hasPayload
        /\ currentPayload = NoPayload
        /\ lastGet.returned => lastGet.payload = NoPayload


\* C29: after a call of removeOwner that did not revert, the Safe has at least
\* MIN_OWNERS owners or exactly one owner who is FALLBACK_OWNER, its threshold
\* is get75PercentThreshold of the number of its owners, and its guard is
\* LIVENESS_GUARD.
C29_FinalStateVerified ==
    (lastRemove.called /\ ~lastRemove.reverted) =>
        /\ \/ Len(safeOwners) >= module.MIN_OWNERS
           \/ (Len(safeOwners) = 1 /\ safeOwners[1] = module.FALLBACK_OWNER)
        /\ safeThreshold = (Len(safeOwners) * 75 + 99) \div 100
        /\ safeGuard = LIVENESS_GUARD

\* a removal that went below MIN_OWNERS and handed the Safe to the fallback owner
C29_Witness ==
    /\ lastRemove.called
    /\ ~lastRemove.reverted
    /\ Len(lastRemove.ownersBefore) > 1
    /\ safeOwners = <<module.FALLBACK_OWNER>>
    /\ module.FALLBACK_OWNER = OutsideAddr

\* C30: removeOwner(owner) reverts and leaves the owners and the threshold of
\* the Safe as they were whenever lastLive(owner) is not strictly less than
\* block.timestamp - LIVENESS_INTERVAL.
C30_LiveOwnerNotRemoved ==
    (lastRemove.called
        /\ ~(lastLive[lastRemove.owner] < now - module.LIVENESS_INTERVAL)) =>
        /\ lastRemove.reverted
        /\ safeOwners = lastRemove.ownersBefore
        /\ safeThreshold = lastRemove.thresholdBefore

\* an owner last live exactly LIVENESS_INTERVAL ago is named, in a Safe that the
\* removal would leave in a state that verifies
C30_Witness ==
    /\ lastRemove.called
    /\ lastRemove.reverted
    /\ lastRemove.owner \in Range(safeOwners)
    /\ lastLive[lastRemove.owner] = now - module.LIVENESS_INTERVAL
    /\ Len(safeOwners) - 1 >= module.MIN_OWNERS
    /\ safeThreshold = get75PercentThreshold(Len(safeOwners))
    /\ safeGuard = LIVENESS_GUARD


\* C31: after a call of removeOwner that did not revert, made when removing one
\* owner would leave fewer than MIN_OWNERS owners, FALLBACK_OWNER is the only
\* owner of the Safe and the threshold is 1.
C31_FallbackTakesOver ==
    (lastRemove.called /\ ~lastRemove.reverted
        /\ Len(lastRemove.ownersBefore) - 1 < module.MIN_OWNERS) =>
        /\ safeOwners = <<module.FALLBACK_OWNER>>
        /\ safeThreshold = 1


\* C32: a request of the NodeProxyBackend consults con.Leader once, before it
\* does anything else; the rollup client is called, once and with the method
\* and argument of the request, only if con.Leader answered true; otherwise the
\* request returns (nil, ErrNotLeader) and the client is not called.
C32_LeaderCheckedBeforeCall ==
    \A r \in Requests :
        /\ proxy[r].leaderCalls <= 1
        /\ proxy[r].pc \in {"checked", "forwarded", "done"} => proxy[r].leaderCalls = 1
        /\ Len(proxy[r].clientCalls) <= 1
        /\ proxy[r].clientCalls # <<>> =>
              /\ proxy[r].isLeader
              /\ proxy[r].clientCalls[1] =
                    [method |-> proxy[r].method, blockNum |-> proxy[r].blockNum]
        /\ (proxy[r].pc = "done" /\ ~proxy[r].isLeader) =>
              /\ proxy[r].ret = [value |-> "nil", err |-> ErrNotLeader]
              /\ proxy[r].clientCalls = <<>>
        /\ (proxy[r].pc = "done" /\ proxy[r].isLeader) =>
              /\ Len(proxy[r].clientCalls) = 1
              /\ proxy[r].ret \in ClientReturns(proxy[r].method)

\* one request was refused and another was forwarded and answered, while the
\* leadership changed in between
C32_Witness ==
    \E r, q \in Requests :
        /\ proxy[r].pc = "done"
        /\ proxy[r].ret.err = ErrNotLeader
        /\ proxy[q].pc = "done"
        /\ proxy[q].method = "OutputAtBlock"
        /\ proxy[q].clientCalls = <<[method |-> "OutputAtBlock", blockNum |-> 7]>>
        /\ proxy[q].ret.err = "nil"


\* C33: the claimedSize passed to InitLargePreimage is len(data.OracleData),
\* for every length, lengths of 2^32 bytes and more included.
C33_ClaimedSizeIsLength ==
    applied.fn = "claimedSize" => applied.res = applied.arg


\* C34: after a call removeOwner(a) that did not revert, made for an owner a of
\* the Safe when owners.length - 1 >= MIN_OWNERS, the owners are the previous
\* owners without a, in the same order, and the threshold is
\* get75PercentThreshold(owners.length - 1).
C34_RemovesExactlyOwner ==
    (lastRemove.called /\ ~lastRemove.reverted
        /\ lastRemove.owner \in Range(lastRemove.ownersBefore)
        /\ Len(lastRemove.ownersBefore) - 1 >= module.MIN_OWNERS) =>
        /\ safeOwners = SelectSeq(lastRemove.ownersBefore, LAMBDA x : x # lastRemove.owner)
        /\ safeThreshold = ((Len(lastRemove.ownersBefore) - 1) * 75 + 99) \div 100


\* C35: for n >= 1, get75PercentThreshold(n) is the lowest t with
\* 100 * t > 75 * n, it lies in 1..n, and it is 1 for n = 1.
C35_LowestAbove75Percent ==
    (applied.fn = "get75PercentThreshold" /\ applied.arg >= 1) =>
        /\ 100 * applied.res > 75 * applied.arg
        /\ \A u \in 1..applied.arg : 100 * u > 75 * applied.arg => applied.res <= u
        /\ applied.res \in 1..applied.arg
        /\ applied.arg = 1 => applied.res = 1


\* C36: at most one handling loop runs at any time, for every interleaving of
\* concurrent Start calls.
C36_AtMostOneLoop == LoopCount <= 1


\* C37: a Get that is served after Gossip(p) has returned, with no publishing
\* error, no Clear and no other Gossip since, returns p.
C37_GetReturnsGossiped ==
    (lastGet.returned /\ lastGet.latest # NoPayload /\ ~lastGet.quiet /\ lastGet.errors = 0) =>
        lastGet.payload = lastGet.latest


\* C38: every call of Gossip, Get and Clear eventually returns, whenever it is
\* made: before Start, while the loop runs, or after the loop has exited.
C38_CallsReturn == (pending # "none") ~> (pending = "none")


\* C39: in a call of UploadPreimage with empty OracleData no leaf is built and
\* no block is absorbed; the init call has claimedSize 0 and AddLeaves gets an
\* empty leaf sequence; and when no call of the environment failed, the call
\* has asked for one uuid, made one init call and one AddLeaves call, and
\* returned errNotSupported.
C39_EmptyDataStillUploads ==
    (ncalls > 0 /\ data.OracleData = <<>>) =>
        /\ leafs = <<>>
        /\ stateMatrix = NewStateMatrix
        /\ \A j \in CallsOf("InitLargePreimage") :
              /\ calls[j].args.claimedSize = 0
              /\ calls[j].args.partOffset = data.OracleOffset
        /\ \A j \in CallsOf("AddLeaves") : calls[j].args.leaves = <<>>
        /\ (Returned /\ NoFailure) =>
              /\ ret = errNotSupported
              /\ Cardinality(CallsOf("rand.Int")) = 1
              /\ Cardinality(CallsOf("InitLargePreimage")) = 1
              /\ Cardinality(CallsOf("AddLeaves")) = 1
              /\ \E j \in DOMAIN calls : IsSendOf(calls[j], "init")

\* an upload of empty data went through: init, AddLeaves with no leaf, and the
\* transactions AddLeaves returned were sent
C39_Witness ==
    /\ Returned
    /\ data.OracleData = <<>>
    /\ NoFailure
    /\ ret = errNotSupported
    /\ \E j \in CallsOf("AddLeaves") : calls[j].args.leaves = <<>>
    /\ Len(LeafSends) >= 1

====
